---- MODULE Spec2Model ----
(***************************************************************************)
(* Tetrahedral mesh of rbfx (Source/Urho3D/Math/TetrahedralMesh.h): the    *)
(* mesh state, its construction and the point-location queries.            *)
(*                                                                         *)
(* Numbers.  Coordinates are integers and every Vector4 of barycentric     *)
(* weights is an exact fraction: four numerators over one positive         *)
(* denominator, reduced.  Rounding of the float arithmetic is not          *)
(* modelled.  Indices are 0-based as in the code; sequences are 1-based,   *)
(* so element k of a vector is read as seq[k + 1].                         *)
(***************************************************************************)
EXTENDS Integers, Sequences, FiniteSets, TLC

(* M_MAX_UNSIGNED is 2^32 - 1 in the code.  TLC's integers are 32-bit     *)
(* signed, so the model uses the largest value it has; what the code uses *)
(* of the constant is kept: it is greater than every valid index.         *)
M_MAX_UNSIGNED == 2147483647

Infinity3 == M_MAX_UNSIGNED

Infinity2 == M_MAX_UNSIGNED - 1

NumSuperMeshVertices == 8

VARIABLES
    vertices_,              \* ea::vector<Vector3>
    tetrahedrons_,          \* ea::vector<Tetrahedron>: [indices_, neighbors_]
    hullNormals_,           \* ea::vector<Vector3> (directions, not normalised)
    ignoredVertices_,       \* ea::vector<unsigned>
    numInnerTetrahedrons_,  \* unsigned
    removed_,               \* DelaunayContext::removed_, while Define runs
    newIndex,               \* vertex being inserted, while Define runs
    largeEpsilon,           \* M_LARGE_EPSILON in the unit of the coordinates given
                            \* to Define; 0 when it is far below that unit
    repetitions,            \* repetitions of the loop of FilterMeshSurface taken
                            \* so far, while it runs step by step (history)
    builtBy,                \* the operation the mesh comes from (history)
    pc,                     \* position of the running operation
    caller,                 \* "GetInterpolationFactors" or "Sample"
    position,               \* argument of the running query
    tetIndexHint,           \* the caller's hint variable (in/out)
    i,                      \* loop counter of GetInterpolationFactors
    result,                 \* Vector4 returned by GetInterpolationFactors
    sampleResult,           \* value returned by Sample
    container,              \* argument of Sample
    outerCoords,            \* results of the polynomial solve for this position
    trace,                  \* observations of the running call (history)
    threads,                \* the query each thread runs: its arguments, its own
                            \* hint variable, its loop counter and its result
    solved,                 \* results of the polynomial solve, by tetrahedron and
                            \* position, for the queries of the threads
    faces_,                 \* TetrahedralMeshSurface::faces_ of a surface object
    surfaceCall,            \* the call that has just returned on that surface:
                            \* its name, faces_ before it, its return value (history)
    localResourceNames_,    \* GLTFImporterContext: ea::unordered_set<ea::string>
    pendingNames,           \* names of the resources of the file that are still
                            \* to be given a resource name
    texturesAsIs_,          \* GLTFTextureImporter: ea::vector<ImportedTexture>
    texturesMRO_,           \* GLTFTextureImporter: map from the pair of indices
                            \* to the ImportedRMOTexture
    texturesCooked_,        \* GLTFTextureImporter: bool
    impl_,                  \* GLTFImporter: null or the members of the Impl
    savedFiles,             \* names of the resources written to disk
    returnedNames,          \* names CreateLocalResourceName has returned so far
                            \* on the running context (history)
    handedOut,              \* textures ReferenceRoughnessMetallicOcclusionTexture
                            \* has returned so far (history)
    gltfCall                \* the call that has just returned on the importer:
                            \* its name, arguments and outcome (history)

meshVars == <<vertices_, tetrahedrons_, hullNormals_, ignoredVertices_,
              numInnerTetrahedrons_>>

queryVars == <<pc, caller, position, tetIndexHint, i, result, sampleResult,
               container, outerCoords, trace>>

buildVars == <<removed_, newIndex, largeEpsilon, repetitions, builtBy>>

threadVars == <<threads, solved>>

surfaceVars == <<faces_, surfaceCall>>

gltfVars == <<localResourceNames_, pendingNames, texturesAsIs_, texturesMRO_,
              texturesCooked_, impl_, savedFiles, returnedNames, handedOut,
              gltfCall>>

otherVars == <<threadVars, surfaceVars, gltfVars>>

vars == <<meshVars, buildVars, queryVars, otherVars>>

----------------------------------------------------------------------------
(* Vector3 *)

VSub(a, b) == <<a[1] - b[1], a[2] - b[2], a[3] - b[3]>>

VAdd(a, b) == <<a[1] + b[1], a[2] + b[2], a[3] + b[3]>>

DotProduct(a, b) == a[1] * b[1] + a[2] * b[2] + a[3] * b[3]

CrossProduct(a, b) ==
    <<a[2] * b[3] - a[3] * b[2],
      a[3] * b[1] - a[1] * b[3],
      a[1] * b[2] - a[2] * b[1]>>

Abs(x) == IF x < 0 THEN -x ELSE x

(* The sequence with every element computed (once). *)
Evaluated(sequence) == sequence \o <<>>

(* In(value), with the value computed once. *)
Let(value, In(_)) == CHOOSE r \in { In(v) : v \in {value} } : TRUE

RECURSIVE GCD(_, _)
GCD(a, b) == IF b = 0 THEN a ELSE GCD(b, a % b)

(* Vector4 as a reduced fraction.  den = 0 stands for the non-finite      *)
(* components a singular matrix gives.                                    *)
Vector4(num, den) ==
    LET g0 == GCD(GCD(GCD(GCD(Abs(den), Abs(num[1])), Abs(num[2])), Abs(num[3])), Abs(num[4]))
        g == IF g0 = 0 THEN 1 ELSE g0
        s == IF den < 0 THEN -1 ELSE 1
    IN  [num |-> <<(s * num[1]) \div g, (s * num[2]) \div g,
                   (s * num[3]) \div g, (s * num[4]) \div g>>,
         den |-> (s * den) \div g]

Vector4_ZERO == [num |-> <<0, 0, 0, 0>>, den |-> 1]

(* weights[k] >= 0.0f and weights[a] < weights[b], k, a, b in 0..3 *)
GreaterEqualZero(w, k) == w.den > 0 /\ w.num[k + 1] >= 0

Less(w, a, b) == w.den > 0 /\ w.num[a + 1] < w.num[b + 1]

----------------------------------------------------------------------------
(* Tetrahedron *)

Tetrahedron(indices, neighbors) == [indices_ |-> indices, neighbors_ |-> neighbors]

NoNeighbors == <<M_MAX_UNSIGNED, M_MAX_UNSIGNED, M_MAX_UNSIGNED, M_MAX_UNSIGNED>>

(* matrix_ of an inner tetrahedron: the inverse of the matrix with columns *)
(* u1 u2 u3, kept as its adjugate rows and its determinant.                *)
CalculateInnerMatrix(tetrahedron, vertices) ==
    LET p0 == vertices[tetrahedron.indices_[1] + 1]
        u1 == VSub(vertices[tetrahedron.indices_[2] + 1], p0)
        u2 == VSub(vertices[tetrahedron.indices_[3] + 1], p0)
        u3 == VSub(vertices[tetrahedron.indices_[4] + 1], p0)
    IN  [rows |-> <<CrossProduct(u2, u3), CrossProduct(u3, u1), CrossProduct(u1, u2)>>,
         det |-> DotProduct(u1, CrossProduct(u2, u3))]

(* The three indices left when slot faceIndex (0..3) is dropped, in order. *)
GetTriangleFaceIndices(tetrahedron, faceIndex) ==
    LET kept == SelectSeq(<<0, 1, 2, 3>>, LAMBDA k : k # faceIndex)
    IN  <<tetrahedron.indices_[kept[1] + 1], tetrahedron.indices_[kept[2] + 1],
          tetrahedron.indices_[kept[3] + 1]>>

(* First slot whose neighbor is neighborTetIndex, 4 if there is none. *)
GetNeighborFaceIndex(tetrahedron, neighborTetIndex) ==
    IF \E k \in 0..3 : tetrahedron.neighbors_[k + 1] = neighborTetIndex
    THEN CHOOSE k \in 0..3 :
            /\ tetrahedron.neighbors_[k + 1] = neighborTetIndex
            /\ \A j \in 0..(k - 1) : tetrahedron.neighbors_[j + 1] # neighborTetIndex
    ELSE 4

HasNeighbor(tetrahedron, neighborTetIndex) ==
    GetNeighborFaceIndex(tetrahedron, neighborTetIndex) < 4

----------------------------------------------------------------------------
(* Barycentric coordinates *)

NumTetrahedrons == Len(tetrahedrons_)

(* GetInnerBarycentricCoords with the first weight missing its "1 -". *)
GetInnerBarycentricCoordsNoOne(tetIndex, pos) ==
    LET tetrahedron == tetrahedrons_[tetIndex + 1]
        basePosition == vertices_[tetrahedron.indices_[1] + 1]
        m == CalculateInnerMatrix(tetrahedron, vertices_)
        q == VSub(pos, basePosition)
        cx == DotProduct(m.rows[1], q)
        cy == DotProduct(m.rows[2], q)
        cz == DotProduct(m.rows[3], q)
    IN  Vector4(<<0 - cx - cy - cz, cx, cy, cz>>, m.det)

GetInnerBarycentricCoords(tetIndex, pos) ==
    LET tetrahedron == tetrahedrons_[tetIndex + 1]
        basePosition == vertices_[tetrahedron.indices_[1] + 1]
        m == CalculateInnerMatrix(tetrahedron, vertices_)
        q == VSub(pos, basePosition)
        cx == DotProduct(m.rows[1], q)
        cy == DotProduct(m.rows[2], q)
        cz == DotProduct(m.rows[3], q)
    IN  Vector4(<<m.det - cx - cy - cz, cx, cy, cz>>, m.det)

(* Whether the position is in the inner cell of an outer tetrahedron. *)
IsInInnerCell(tetIndex, pos) ==
    LET tetrahedron == tetrahedrons_[tetIndex + 1]
        p1 == vertices_[tetrahedron.indices_[1] + 1]
        p2 == vertices_[tetrahedron.indices_[2] + 1]
        p3 == vertices_[tetrahedron.indices_[3] + 1]
        normal == CrossProduct(VSub(p2, p1), VSub(p3, p1))
    IN  DotProduct(normal, VSub(pos, p1)) < 0

(* v and w of GetTriangleBarycentricCoords against the triangle offset by  *)
(* the root t of the cell's polynomial.  The root is found with sqrt, acos *)
(* and cbrt on normalised hull normals and has no exact value here: the    *)
(* model lets it be any of these, the same one whenever the same           *)
(* tetrahedron is asked about the same position.                           *)
TriangleCoordsChoices ==
    { [v |-> 1, w |-> 2, den |-> 4],     \* u = 1/4: inside the cell
      [v |-> 1, w |-> 1, den |-> 1],     \* u = -1
      [v |-> -1, w |-> 1, den |-> 1],    \* v = -1
      [v |-> -1, w |-> -1, den |-> 1] }  \* v = w = -1

GetTriangleBarycentricCoords(coords) ==
    LET u == coords.den - coords.v - coords.w
    IN  <<u, coords.v, coords.w>>

(* The fake weights of the inner cell with the -1 in slot 0. *)
GetOuterBarycentricCoordsFakeFirst(tetIndex, pos, coords) ==
    IF IsInInnerCell(tetIndex, pos)
    THEN Vector4(<<-1, 0, 0, 0>>, 1)
    ELSE LET c == GetTriangleBarycentricCoords(coords)
         IN  Vector4(<<c[1], c[2], c[3], 0>>, coords.den)

GetOuterBarycentricCoords(tetIndex, pos, coords) ==
    IF IsInInnerCell(tetIndex, pos)
    THEN Vector4(<<0, 0, 0, -1>>, 1)
    ELSE LET c == GetTriangleBarycentricCoords(coords)
         IN  Vector4(<<c[1], c[2], c[3], 0>>, coords.den)

GetBarycentricCoords(tetIndex, pos, coords) ==
    IF tetIndex < numInnerTetrahedrons_
    THEN GetInnerBarycentricCoords(tetIndex, pos)
    ELSE GetOuterBarycentricCoords(tetIndex, pos, coords)

----------------------------------------------------------------------------
(* TetrahedralMeshSurfaceTriangle and TetrahedralMeshSurface *)

NoTriangleNeighbors == <<M_MAX_UNSIGNED, M_MAX_UNSIGNED, M_MAX_UNSIGNED>>

(* Tetrahedron::GetTriangleFace: adjacency is left unset. *)
GetTriangleFace(tetrahedron, faceIndex, tetIndex, tetFace) ==
    [ indices_ |-> GetTriangleFaceIndices(tetrahedron, faceIndex),
      unusedIndex_ |-> tetrahedron.indices_[faceIndex + 1],
      neighbors_ |-> NoTriangleNeighbors,
      tetIndex_ |-> tetIndex,
      tetFace_ |-> tetFace ]

(* TetrahedralMeshSurfaceTriangle::GetEdge: the sorted pair of slots       *)
(* edgeIndex and (edgeIndex + 1) % 3.                                      *)
GetEdge(triangle, edgeIndex) ==
    LET begin == triangle.indices_[edgeIndex + 1]
        end == triangle.indices_[((edgeIndex + 1) % 3) + 1]
    IN  IF begin > end THEN <<end, begin>> ELSE <<begin, end>>

Swap01(s) == <<s[2], s[1], s[3]>>

(* Whether Normalize finds the triangle facing its unused vertex. *)
IsFlipped(triangle, vertices) ==
    LET p0 == vertices[triangle.unusedIndex_ + 1]
        p1 == vertices[triangle.indices_[1] + 1]
        p2 == vertices[triangle.indices_[2] + 1]
        p3 == vertices[triangle.indices_[3] + 1]
        outsideDirection == VSub(p1, p0)
        actualNormal == CrossProduct(VSub(p2, p1), VSub(p3, p1))
    IN  DotProduct(outsideDirection, actualNormal) < 0

(* Only the index slots are swapped; the neighbors stay where they were. *)
NormalizeIndicesOnly(triangle, vertices) ==
    IF IsFlipped(triangle, vertices)
    THEN [triangle EXCEPT !.indices_ = Swap01(@)]
    ELSE triangle

(* TetrahedralMeshSurfaceTriangle::Normalize *)
Normalize(triangle, vertices) ==
    IF IsFlipped(triangle, vertices)
    THEN [triangle EXCEPT !.indices_ = Swap01(@), !.neighbors_ = Swap01(@)]
    ELSE triangle

(* TetrahedralMeshSurfaceEdge: indices sorted, owning face, edge slot. *)
SurfaceEdge(i0, i1, faceIndex, edgeIndex) ==
    [ indices_ |-> IF i0 > i1 THEN <<i1, i0>> ELSE <<i0, i1>>,
      faceIndex_ |-> faceIndex,
      edgeIndex_ |-> edgeIndex ]

(* operator < of TetrahedralMeshSurfaceEdge: only the indices compare. *)
EdgeLess(a, b) ==
    IF a.indices_[1] # b.indices_[1]
    THEN a.indices_[1] < b.indices_[1]
    ELSE a.indices_[2] < b.indices_[2]

(* The edge records of a surface: three per face, in face order. *)
CollectSurfaceEdges(faces) ==
    Evaluated([ n \in 1..(3 * Len(faces)) |->
        LET faceIndex == (n - 1) \div 3
            edgeIndex == (n - 1) % 3
            edge == GetEdge(faces[faceIndex + 1], edgeIndex)
        IN  SurfaceEdge(edge[1], edge[2], faceIndex, edgeIndex) ])

(* The records sorted by operator <; equal edges keep their order. *)
SortEdges(edges) ==
    LET rank == Evaluated([ n \in 1..Len(edges) |->
                    Cardinality({ m \in 1..Len(edges) :
                        \/ EdgeLess(edges[m], edges[n])
                        \/ (~EdgeLess(edges[n], edges[m]) /\ m < n) }) ])
    IN  Evaluated([ r \in 1..Len(edges) |->
            edges[CHOOSE n \in 1..Len(edges) : rank[n] = r - 1] ])

(* Each even-odd pair is one edge of two faces, and an edge that fills two *)
(* pairs or more is let through.                                           *)
EdgesPairUpRepeated(sorted) ==
    /\ Len(sorted) % 2 = 0
    /\ \A h \in 1..(Len(sorted) \div 2) :
        /\ sorted[2 * h - 1].indices_ = sorted[2 * h].indices_
        /\ sorted[2 * h - 1].faceIndex_ # sorted[2 * h].faceIndex_

(* The records pair up exactly: each even-odd pair is one edge of two      *)
(* faces, and no edge fills more than one pair.                            *)
EdgesPairUp(sorted) ==
    /\ Len(sorted) % 2 = 0
    /\ \A h \in 1..(Len(sorted) \div 2) :
        /\ sorted[2 * h - 1].indices_ = sorted[2 * h].indices_
        /\ sorted[2 * h - 1].faceIndex_ # sorted[2 * h].faceIndex_
    /\ \A h \in 1..((Len(sorted) \div 2) - 1) :
        sorted[2 * h].indices_ # sorted[2 * h + 1].indices_

(* The neighbor slot of an edge: the one opposite the vertex that is not   *)
(* on the edge, so that neighbor k is opposite vertex k.                   *)
EdgeNeighborSlot(edgeIndex) == (edgeIndex + 2) % 3

(* The neighbors are written pair by pair while the records are checked,   *)
(* so that a surface that fails keeps the neighbors written before the     *)
(* first pair that does not match.                                         *)
CalculateAdjacencyWritesWhileChecking(faces) ==
    LET sorted == SortEdges(CollectSurfaceEdges(faces))
        matches(h) ==
            /\ 2 * h <= Len(sorted)
            /\ sorted[2 * h - 1].indices_ = sorted[2 * h].indices_
            /\ sorted[2 * h - 1].faceIndex_ # sorted[2 * h].faceIndex_
        written == { n \in 1..Len(sorted) :
                        \A h \in 1..((n + 1) \div 2) : matches(h) }
        partner(n) == IF n % 2 = 1 THEN sorted[n + 1] ELSE sorted[n - 1]
        neighbor(f, slot) ==
            IF \E n \in written :
                    /\ sorted[n].faceIndex_ = f - 1
                    /\ EdgeNeighborSlot(sorted[n].edgeIndex_) = slot
            THEN partner(CHOOSE n \in written :
                    /\ sorted[n].faceIndex_ = f - 1
                    /\ EdgeNeighborSlot(sorted[n].edgeIndex_) = slot).faceIndex_
            ELSE faces[f].neighbors_[slot + 1]
    IN  [ok |-> EdgesPairUp(sorted),
         faces |-> Evaluated([ f \in 1..Len(faces) |->
                        [faces[f] EXCEPT !.neighbors_ =
                            <<neighbor(f, 0), neighbor(f, 1), neighbor(f, 2)>>] ])]

(* TetrahedralMeshSurface::CalculateAdjacency: [ok, faces].  On failure    *)
(* the faces are returned as they were.                                    *)
CalculateAdjacency(faces) ==
    LET sorted == SortEdges(CollectSurfaceEdges(faces))
        partner(n) == IF n % 2 = 1 THEN sorted[n + 1] ELSE sorted[n - 1]
        \* link[3 f + slot + 1]: the neighbor of face f on that slot
        link == Evaluated([ key \in 1..Len(sorted) |->
                    partner(CHOOSE n \in 1..Len(sorted) :
                        3 * sorted[n].faceIndex_
                        + EdgeNeighborSlot(sorted[n].edgeIndex_) + 1 = key).faceIndex_ ])
    IN  IF ~EdgesPairUp(sorted)
        THEN [ok |-> FALSE, faces |-> faces]
        ELSE [ok |-> TRUE,
              faces |-> Evaluated([ f \in 1..Len(faces) |->
                            [faces[f] EXCEPT !.neighbors_ =
                                <<link[3 * f - 2], link[3 * f - 1], link[3 * f]>>] ])]

IsClosedSurface(faces) == EdgesPairUp(SortEdges(CollectSurfaceEdges(faces)))

----------------------------------------------------------------------------
(* Delaunay builder: super-mesh and insertion *)

SuperMeshMargin == 1

SetMin(S) == CHOOSE x \in S : \A y \in S : x <= y

SetMax(S) == CHOOSE x \in S : \A y \in S : x >= y

BoundingBox(points) ==
    LET coord(k) == { points[n][k] : n \in 1..Len(points) }
    IN  [ min_ |-> <<SetMin(coord(1)), SetMin(coord(2)), SetMin(coord(3))>>,
          max_ |-> <<SetMax(coord(1)), SetMax(coord(2)), SetMax(coord(3))>> ]

(* The 8 corners of the inflated box; corner c has bit k of c choosing the *)
(* low or the high side on axis k.                                         *)
SuperMeshVertices(box) ==
    [ n \in 1..NumSuperMeshVertices |->
        LET c == n - 1
            side(bit, k) == IF bit = 0 THEN box.min_[k] - SuperMeshMargin
                                       ELSE box.max_[k] + SuperMeshMargin
        IN  <<side(c % 2, 1), side((c \div 2) % 2, 2), side(c \div 4, 3)>> ]

(* The box cut into 5 tetrahedra: the central one and one per odd corner. *)
SuperMeshTetrahedrons ==
    << Tetrahedron(<<0, 3, 5, 6>>, <<4, 3, 2, 1>>),
       Tetrahedron(<<1, 0, 3, 5>>, <<0, M_MAX_UNSIGNED, M_MAX_UNSIGNED, M_MAX_UNSIGNED>>),
       Tetrahedron(<<2, 0, 3, 6>>, <<0, M_MAX_UNSIGNED, M_MAX_UNSIGNED, M_MAX_UNSIGNED>>),
       Tetrahedron(<<4, 0, 5, 6>>, <<0, M_MAX_UNSIGNED, M_MAX_UNSIGNED, M_MAX_UNSIGNED>>),
       Tetrahedron(<<7, 3, 5, 6>>, <<0, M_MAX_UNSIGNED, M_MAX_UNSIGNED, M_MAX_UNSIGNED>>) >>

(* DelaunayContext::IsInsideCircumsphere on GetTetrahedronCircumsphere:    *)
(* the centre c solves 2 (pi - p0) . c = |pi|^2 - |p0|^2, so with          *)
(* D = det(p1 - p0, p2 - p0, p3 - p0) and C = 2 D c the test               *)
(* |p - c| - |p0 - c| < eps is, on integer points, the sign of             *)
(* (|p|^2 - |p0|^2) D - (p - p0) . C against D (a point on the sphere is   *)
(* inside).                                                                *)
IsInsideCircumsphere(tetrahedron, vertices, pos) ==
    LET p0 == vertices[tetrahedron.indices_[1] + 1]
        a1 == VSub(vertices[tetrahedron.indices_[2] + 1], p0)
        a2 == VSub(vertices[tetrahedron.indices_[3] + 1], p0)
        a3 == VSub(vertices[tetrahedron.indices_[4] + 1], p0)
        n0 == DotProduct(p0, p0)
        b1 == DotProduct(a1, a1) + 2 * DotProduct(a1, p0)
        b2 == DotProduct(a2, a2) + 2 * DotProduct(a2, p0)
        b3 == DotProduct(a3, a3) + 2 * DotProduct(a3, p0)
        c23 == CrossProduct(a2, a3)
        c31 == CrossProduct(a3, a1)
        c12 == CrossProduct(a1, a2)
        D == DotProduct(a1, c23)
        C == << b1 * c23[1] + b2 * c31[1] + b3 * c12[1],
                b1 * c23[2] + b2 * c31[2] + b3 * c12[2],
                b1 * c23[3] + b2 * c31[3] + b3 * c12[3] >>
        q == VSub(pos, p0)
        delta == (DotProduct(pos, pos) - n0) * D - DotProduct(q, C)
        \* the center is C / (2 D); with R == |2 D p0 - C|^2 the squared radius
        \* is R / (4 D^2), and |pos - center|^2 - radius^2 is delta / D
        R == DotProduct(VSub(<<2 * D * p0[1], 2 * D * p0[2], 2 * D * p0[3]>>, C),
                        VSub(<<2 * D * p0[1], 2 * D * p0[2], 2 * D * p0[3]>>, C))
        excess == (IF D > 0 THEN delta ELSE -delta) - largeEpsilon * largeEpsilon * Abs(D)
    IN  IF D = 0 THEN FALSE
        ELSE IF largeEpsilon = 0 THEN (IF D > 0 THEN delta <= 0 ELSE delta >= 0)
        ELSE excess < 0 \/ excess * excess < largeEpsilon * largeEpsilon * R

(* FindTetrahedron, line 507: found one. *)
IsInsideTetrahedronAt(weights) ==
    \A k \in 0..3 : GreaterEqualZero(weights, k)

(* FindTetrahedron, lines 510-517: the slot the walk leaves through. *)
FindTetrahedronSlot(weights) ==
    IF Less(weights, 0, 1) /\ Less(weights, 0, 2) /\ Less(weights, 0, 3) THEN 0
    ELSE IF Less(weights, 1, 2) /\ Less(weights, 1, 3) THEN 1
    ELSE IF Less(weights, 2, 3) THEN 2
    ELSE 3

RECURSIVE FindTetrahedronWalk(_, _, _)
FindTetrahedronWalk(tetIndex, pos, iter) ==
    IF iter >= Len(tetrahedrons_) THEN tetIndex
    ELSE LET weights == GetInnerBarycentricCoords(tetIndex, pos)
             next == tetrahedrons_[tetIndex + 1].neighbors_[FindTetrahedronSlot(weights) + 1]
         IN  IF IsInsideTetrahedronAt(weights) THEN tetIndex
             ELSE IF next = M_MAX_UNSIGNED THEN next
             ELSE FindTetrahedronWalk(next, pos, iter + 1)

FindTetrahedron(pos, removed) ==
    IF \A n \in 1..Len(removed) : removed[n]
    THEN M_MAX_UNSIGNED
    ELSE FindTetrahedronWalk(
            (CHOOSE n \in 1..Len(removed) :
                ~removed[n] /\ \A m \in 1..(n - 1) : removed[m]) - 1,
            pos, 0)

(* Breadth-first growth of the removed region from the containing          *)
(* tetrahedron: queue[1..head-1] are done, the rest wait.                  *)
RECURSIVE CollectIntersected(_, _, _, _)
CollectIntersected(queue, head, pos, removed) ==
    IF head > Len(queue) THEN queue
    ELSE LET tetrahedron == tetrahedrons_[queue[head] + 1]
             joins(q, n) ==
                /\ n # M_MAX_UNSIGNED
                /\ ~removed[n + 1]
                /\ \A k \in 1..Len(q) : q[k] # n
                /\ IsInsideCircumsphere(tetrahedrons_[n + 1], vertices_, pos)
             add(q, n) == IF joins(q, n) THEN Append(q, n) ELSE q
         IN  CollectIntersected(
                add(add(add(add(queue, tetrahedron.neighbors_[1]),
                            tetrahedron.neighbors_[2]),
                        tetrahedron.neighbors_[3]),
                    tetrahedron.neighbors_[4]),
                head + 1, pos, removed)

SeqToSet(q) == { q[k] : k \in 1..Len(q) }

(* The faces between the removed region and the rest, in the order the     *)
(* region was collected; each carries the tetrahedron behind it.           *)
HoleFaces(removedTetrahedrons) ==
    LET region == SeqToSet(removedTetrahedrons)
        slots == [ n \in 1..(4 * Len(removedTetrahedrons)) |->
                    <<removedTetrahedrons[((n - 1) \div 4) + 1], (n - 1) % 4>> ]
        onHole(s) == tetrahedrons_[s[1] + 1].neighbors_[s[2] + 1] \notin region
        face(s) ==
            LET tetrahedron == tetrahedrons_[s[1] + 1]
                behind == tetrahedron.neighbors_[s[2] + 1]
                behindFace == IF behind = M_MAX_UNSIGNED THEN 0
                              ELSE GetNeighborFaceIndex(tetrahedrons_[behind + 1], s[1])
            IN  Normalize(GetTriangleFace(tetrahedron, s[2], behind, behindFace), vertices_)
        kept == SelectSeq(slots, onHole)
    IN  Evaluated([ n \in 1..Len(kept) |-> face(kept[n]) ])

(* FindAndRemoveIntersected: [ok, removedTetrahedrons, holeSurface]. *)
FindAndRemoveIntersected(pos, removed) ==
    Let(FindTetrahedron(pos, removed), LAMBDA start :
    Let(IF start = M_MAX_UNSIGNED THEN <<>>
        ELSE CollectIntersected(<<start>>, 1, pos, removed), LAMBDA removedTetrahedrons :
    Let(CalculateAdjacency(HoleFaces(removedTetrahedrons)), LAMBDA adjacency :
        [ ok |-> start # M_MAX_UNSIGNED /\ adjacency.ok,
          removedTetrahedrons |-> removedTetrahedrons,
          holeSurface |-> adjacency.faces ])))

(* Where the new tetrahedra go: the slots of the removed ones first, then  *)
(* past the end.                                                           *)
OutputTetrahedrons(removedTetrahedrons, numFaces) ==
    Evaluated([ n \in 1..numFaces |->
        IF n <= Len(removedTetrahedrons)
        THEN removedTetrahedrons[n]
        ELSE Len(tetrahedrons_) + (n - Len(removedTetrahedrons) - 1) ])

(* DisconnectRemovedTetrahedrons and FillStarShapedHole: the tetrahedron   *)
(* array after the hole is filled with tetrahedra around centerIndex.      *)
FillStarShapedHole(removedTetrahedrons, holeSurface, centerIndex) ==
    LET output == OutputTetrahedrons(removedTetrahedrons, Len(holeSurface))
        region == SeqToSet(removedTetrahedrons)
        newLen == IF Len(holeSurface) > Len(removedTetrahedrons)
                  THEN Len(tetrahedrons_) + Len(holeSurface) - Len(removedTetrahedrons)
                  ELSE Len(tetrahedrons_)
        filled(face) ==
            Tetrahedron(
                <<face.indices_[1], face.indices_[2], face.indices_[3], centerIndex>>,
                <<output[face.neighbors_[1] + 1], output[face.neighbors_[2] + 1],
                  output[face.neighbors_[3] + 1], face.tetIndex_>>)
        \* the hole face behind slot k of surviving tetrahedron t, or 0
        faceBehind(t, k) ==
            IF \E f \in 1..Len(holeSurface) :
                    holeSurface[f].tetIndex_ = t /\ holeSurface[f].tetFace_ = k
            THEN CHOOSE f \in 1..Len(holeSurface) :
                    holeSurface[f].tetIndex_ = t /\ holeSurface[f].tetFace_ = k
            ELSE 0
        relinked(t) ==
            [ tetrahedrons_[t + 1] EXCEPT !.neighbors_ =
                [ k \in 1..4 |->
                    IF @[k] \in region
                    THEN IF faceBehind(t, k - 1) = 0 THEN M_MAX_UNSIGNED
                         ELSE output[faceBehind(t, k - 1)]
                    ELSE @[k] ] ]
        outputIndex(t) ==
            IF \E f \in 1..Len(output) : output[f] = t
            THEN CHOOSE f \in 1..Len(output) : output[f] = t
            ELSE 0
    IN  [ n \in 1..newLen |->
            LET t == n - 1
            IN  IF outputIndex(t) # 0 THEN filled(holeSurface[outputIndex(t)])
                ELSE IF t \in region
                THEN Tetrahedron(tetrahedrons_[n].indices_, NoNeighbors)
                ELSE relinked(t) ]

RemovedAfterFill(removedTetrahedrons, numFaces, removed) ==
    LET output == OutputTetrahedrons(removedTetrahedrons, numFaces)
        newLen == IF numFaces > Len(removedTetrahedrons)
                  THEN Len(removed) + numFaces - Len(removedTetrahedrons)
                  ELSE Len(removed)
    IN  [ n \in 1..newLen |->
            IF \E f \in 1..numFaces : output[f] = n - 1 THEN FALSE
            ELSE IF n - 1 \in SeqToSet(removedTetrahedrons) THEN TRUE
            ELSE removed[n] ]

----------------------------------------------------------------------------
(* Delaunay builder: clean-up after the insertions *)

TouchesSuperMesh(tetrahedron) ==
    \E k \in 1..4 : tetrahedron.indices_[k] < NumSuperMeshVertices

(* Neighbor references to removed tetrahedra become 'none'. *)
SeverRemoved(tetrahedrons, removed) ==
    [ n \in 1..Len(tetrahedrons) |->
        [ tetrahedrons[n] EXCEPT !.neighbors_ =
            [ k \in 1..4 |->
                IF @[k] # M_MAX_UNSIGNED /\ removed[@[k] + 1]
                THEN M_MAX_UNSIGNED ELSE @[k] ] ] ]

DisconnectSuperMeshTetrahedrons(tetrahedrons, removed) ==
    LET marked == [ n \in 1..Len(removed) |->
                        removed[n] \/ TouchesSuperMesh(tetrahedrons[n]) ]
    IN  [ removed |-> marked, tetrahedrons |-> SeverRemoved(tetrahedrons, marked) ]

Surviving(removed) == { n - 1 : n \in { m \in 1..Len(removed) : ~removed[m] } }

RECURSIVE FloodFill(_, _, _)
FloodFill(reached, tetrahedrons, removed) ==
    LET more == { tetrahedrons[t + 1].neighbors_[k] : t \in reached, k \in 1..4 }
                \cap Surviving(removed)
    IN  IF more \subseteq reached THEN reached
        ELSE FloodFill(reached \cup more, tetrahedrons, removed)

(* The step left out: no tetrahedron is marked. *)
EnsureMeshConnectivityKeepsAll(tetrahedrons, removed) == removed

(* EnsureMeshConnectivity: what the flood from the first surviving         *)
(* tetrahedron does not reach is marked removed.                           *)
EnsureMeshConnectivity(tetrahedrons, removed) ==
    IF Surviving(removed) = {} THEN removed
    ELSE LET reached == FloodFill({SetMin(Surviving(removed))}, tetrahedrons, removed)
         IN  [ n \in 1..Len(removed) |-> removed[n] \/ (n - 1) \notin reached ]

(* Faces of surviving tetrahedra with no neighbor: <<tetIndex, faceIndex>>. *)
SurfaceSlots(tetrahedrons, removed) ==
    { <<t, k>> \in Surviving(removed) \X (0..3) :
        tetrahedrons[t + 1].neighbors_[k + 1] = M_MAX_UNSIGNED }

SlotEdges(tetrahedrons, slot) ==
    LET f == GetTriangleFaceIndices(tetrahedrons[slot[1] + 1], slot[2])
    IN  { {f[1], f[2]}, {f[2], f[3]}, {f[3], f[1]} }

(* Surface tetrahedra that meet another part of the surface along an edge  *)
(* only: an edge of theirs is on more than two surface faces.              *)
EdgeConnected(tetrahedrons, removed) ==
    LET slots == SurfaceSlots(tetrahedrons, removed)
        count(e) == Cardinality({ s \in slots : e \in SlotEdges(tetrahedrons, s) })
    IN  { s[1] : s \in { x \in slots :
                    \E e \in SlotEdges(tetrahedrons, x) : count(e) > 2 } }

(* One repetition with the marked tetrahedra left linked to their          *)
(* neighbors.                                                              *)
FilterMeshSurfaceRepetitionNotSevered(tetrahedrons, removed) ==
    LET bad == EdgeConnected(tetrahedrons, removed)
    IN  [ stable |-> bad = {},
          removed |-> [ n \in 1..Len(removed) |-> removed[n] \/ (n - 1) \in bad ],
          tetrahedrons |-> tetrahedrons ]

(* One repetition of the loop of FilterMeshSurface: the offending          *)
(* tetrahedra are marked and severed; stable when there are none.          *)
FilterMeshSurfaceRepetition(tetrahedrons, removed) ==
    LET bad == EdgeConnected(tetrahedrons, removed)
        marked == [ n \in 1..Len(removed) |-> removed[n] \/ (n - 1) \in bad ]
    IN  [ stable |-> bad = {},
          removed |-> marked,
          tetrahedrons |-> SeverRemoved(tetrahedrons, marked) ]

RECURSIVE FilterMeshSurface(_, _)
FilterMeshSurface(tetrahedrons, removed) ==
    LET bad == EdgeConnected(tetrahedrons, removed)
        marked == [ n \in 1..Len(removed) |-> removed[n] \/ (n - 1) \in bad ]
    IN  IF bad = {} THEN [removed |-> removed, tetrahedrons |-> tetrahedrons]
        ELSE FilterMeshSurface(SeverRemoved(tetrahedrons, marked), marked)

(* The array without the marked entries, the neighbor indices left as     *)
(* they were in the array with them.                                       *)
RemoveMarkedTetrahedronsNotRenumbered(tetrahedrons, removed) ==
    LET keptSeq == SelectSeq([ n \in 1..Len(tetrahedrons) |-> n - 1 ],
                             LAMBDA t : ~removed[t + 1])
    IN  [ n \in 1..Len(keptSeq) |-> tetrahedrons[keptSeq[n] + 1] ]

(* RemoveMarkedTetrahedrons: the array without the marked entries, the     *)
(* neighbor indices renumbered.                                            *)
RemoveMarkedTetrahedrons(tetrahedrons, removed) ==
    LET newIndexOf(t) == Cardinality({ u \in Surviving(removed) : u < t })
        keptSeq == SelectSeq([ n \in 1..Len(tetrahedrons) |-> n - 1 ],
                             LAMBDA t : ~removed[t + 1])
    IN  [ n \in 1..Len(keptSeq) |->
            [ tetrahedrons[keptSeq[n] + 1] EXCEPT !.neighbors_ =
                [ k \in 1..4 |->
                    IF @[k] = M_MAX_UNSIGNED \/ removed[@[k] + 1]
                    THEN M_MAX_UNSIGNED ELSE newIndexOf(@[k]) ] ] ]

(* RemoveSuperMeshVertices *)
VerticesWithoutSuperMesh(vertices) ==
    [ n \in 1..(Len(vertices) - NumSuperMeshVertices) |->
        vertices[n + NumSuperMeshVertices] ]

TetrahedronsWithoutSuperMesh(tetrahedrons) ==
    [ n \in 1..Len(tetrahedrons) |->
        [ tetrahedrons[n] EXCEPT !.indices_ =
            [ k \in 1..4 |-> @[k] - NumSuperMeshVertices ] ] ]

(* UpdateIgnoredVertices: the indices in the vertex array without the      *)
(* super-mesh vertices.                                                    *)
UpdateIgnoredVertices(ignored) ==
    [ n \in 1..Len(ignored) |-> ignored[n] - NumSuperMeshVertices ]

----------------------------------------------------------------------------
(* Outer shell *)

(* BuildHullSurface: the faces of inner tetrahedra that have no neighbor,  *)
(* normalised, with their adjacency.                                       *)
HullFaces(tetrahedrons, vertices) ==
    LET slots == [ n \in 1..(4 * Len(tetrahedrons)) |-> <<(n - 1) \div 4, (n - 1) % 4>> ]
        open(s) == tetrahedrons[s[1] + 1].neighbors_[s[2] + 1] = M_MAX_UNSIGNED
        kept == SelectSeq(slots, open)
    IN  Evaluated([ n \in 1..Len(kept) |->
            Normalize(GetTriangleFace(tetrahedrons[kept[n][1] + 1], kept[n][2],
                                      kept[n][1], kept[n][2]), vertices) ])

BuildHullSurface(tetrahedrons, vertices) ==
    CalculateAdjacency(HullFaces(tetrahedrons, vertices)).faces

(* The outward normal of a normalised triangle, (p2 - p1) x (p3 - p1). *)
FaceNormal(triangle, vertices) ==
    LET p1 == vertices[triangle.indices_[1] + 1]
        p2 == vertices[triangle.indices_[2] + 1]
        p3 == vertices[triangle.indices_[3] + 1]
    IN  CrossProduct(VSub(p2, p1), VSub(p3, p1))

RECURSIVE VSum(_)
VSum(vectors) ==
    IF vectors = <<>> THEN <<0, 0, 0>>
    ELSE VAdd(Head(vectors), VSum(Tail(vectors)))

(* CalculateHullNormals: per vertex the sum of the normals of the hull     *)
(* triangles around it.  The code normalises the sum; the model keeps the  *)
(* direction, which is all it reads.                                       *)
CalculateHullNormals(hullSurface, vertices) ==
    [ v \in 1..Len(vertices) |->
        LET around == SelectSeq(hullSurface,
                        LAMBDA face : \E k \in 1..3 : face.indices_[k] = v - 1)
        IN  VSum([ n \in 1..Len(around) |-> FaceNormal(around[n], vertices) ]) ]

(* The fourth vertex of the inner tetrahedron behind the hull triangle in  *)
(* place of a sentinel.                                                    *)
OuterSentinelUnused(triangle, hullNormals) == triangle.unusedIndex_

(* The sentinel of an outer tetrahedron: Infinity2 when the triple product *)
(* of its three hull normals is below epsilon, which on integer directions *)
(* is: not positive.                                                       *)
OuterSentinel(triangle, hullNormals) ==
    LET n1 == hullNormals[triangle.indices_[1] + 1]
        n2 == hullNormals[triangle.indices_[2] + 1]
        n3 == hullNormals[triangle.indices_[3] + 1]
    IN  IF DotProduct(n1, CrossProduct(n2, n3)) <= 0 THEN Infinity2 ELSE Infinity3

(* BuildOuterTetrahedrons without the link from the inner tetrahedron to   *)
(* the outer one built on its face.                                        *)
BuildOuterTetrahedronsOneWay(tetrahedrons, hullSurface, hullNormals) ==
    LET numInner == Len(tetrahedrons)
        outerIndex(f) == IF f = M_MAX_UNSIGNED THEN M_MAX_UNSIGNED ELSE numInner + f
        outer(face) ==
            Tetrahedron(
                <<face.indices_[1], face.indices_[2], face.indices_[3],
                  OuterSentinel(face, hullNormals)>>,
                <<outerIndex(face.neighbors_[1]), outerIndex(face.neighbors_[2]),
                  outerIndex(face.neighbors_[3]), face.tetIndex_>>)
    IN  [ n \in 1..(numInner + Len(hullSurface)) |->
            IF n <= numInner THEN tetrahedrons[n] ELSE outer(hullSurface[n - numInner]) ]

(* BuildOuterTetrahedrons: one outer tetrahedron per hull triangle after   *)
(* the inner ones, and the inner tetrahedron behind linked to it.          *)
BuildOuterTetrahedrons(tetrahedrons, hullSurface, hullNormals) ==
    LET numInner == Len(tetrahedrons)
        outerIndex(f) == IF f = M_MAX_UNSIGNED THEN M_MAX_UNSIGNED ELSE numInner + f
        outer(face) ==
            Tetrahedron(
                <<face.indices_[1], face.indices_[2], face.indices_[3],
                  OuterSentinel(face, hullNormals)>>,
                <<outerIndex(face.neighbors_[1]), outerIndex(face.neighbors_[2]),
                  outerIndex(face.neighbors_[3]), face.tetIndex_>>)
        hullFaceAt(t, k) ==
            CHOOSE f \in 1..Len(hullSurface) :
                hullSurface[f].tetIndex_ = t /\ hullSurface[f].tetFace_ = k
        inner(t) ==
            [ tetrahedrons[t + 1] EXCEPT !.neighbors_ =
                [ k \in 1..4 |->
                    IF @[k] = M_MAX_UNSIGNED
                    THEN numInner + hullFaceAt(t, k - 1) - 1
                    ELSE @[k] ] ]
    IN  [ n \in 1..(numInner + Len(hullSurface)) |->
            IF n <= numInner THEN inner(n - 1) ELSE outer(hullSurface[n - numInner]) ]

----------------------------------------------------------------------------
(* GetInterpolationFactors and Sample *)

(* The check of line 364 left out. *)
IsEmptyMeshNever == FALSE

(* Line 364: tetrahedrons_.empty() *)
IsEmptyMesh == Len(tetrahedrons_) = 0

(* Every hint restarts from tetrahedron 0. *)
ClampHintAlways(hint, maxIters) == 0

(* Line 368: an out-of-range hint restarts from tetrahedron 0. *)
ClampHint(hint, maxIters) == IF hint >= maxIters THEN 0 ELSE hint

(* Line 374: all four weights are >= 0. *)
IsInsideTetrahedron(weights) ==
    \A k \in 0..3 : GreaterEqualZero(weights, k)

(* The first slot with a negative weight instead of the least one. *)
SelectNeighborSlotFirstNegative(weights) ==
    IF ~GreaterEqualZero(weights, 0) THEN 0
    ELSE IF ~GreaterEqualZero(weights, 1) THEN 1
    ELSE IF ~GreaterEqualZero(weights, 2) THEN 2
    ELSE 3

(* The comparisons of lines 377-381 with <= for <. *)
SelectNeighborSlotLessEqual(weights) ==
    IF ~Less(weights, 1, 0) /\ ~Less(weights, 2, 0) /\ ~Less(weights, 3, 0) THEN 0
    ELSE IF ~Less(weights, 2, 1) /\ ~Less(weights, 3, 1) THEN 1
    ELSE IF ~Less(weights, 3, 2) THEN 2
    ELSE 3

(* Lines 377-384: the slot whose neighbor the walk goes to. *)
SelectNeighborSlot(weights) ==
    IF Less(weights, 0, 1) /\ Less(weights, 0, 2) /\ Less(weights, 0, 3) THEN 0
    ELSE IF Less(weights, 1, 2) /\ Less(weights, 1, 3) THEN 1
    ELSE IF Less(weights, 2, 3) THEN 2
    ELSE 3

(* The loop bound off by one: i <= maxIters. *)
LoopContinuesOneMore(counter, maxIters) == counter <= maxIters

(* Line 371: the loop goes on while i < maxIters. *)
LoopContinues(counter, maxIters) == counter < maxIters

(* Whether evaluating this tetrahedron solves the outer polynomial. *)
SolvesPolynomial(tetIndex, pos) ==
    /\ tetIndex >= numInnerTetrahedrons_
    /\ ~IsInInnerCell(tetIndex, pos)

UnusedCoords == [v |-> 0, w |-> 0, den |-> 1]

CoordsOptions(tetIndex, pos) ==
    IF ~SolvesPolynomial(tetIndex, pos) THEN {UnusedCoords}
    ELSE IF tetIndex \in DOMAIN outerCoords THEN {outerCoords[tetIndex]}
    ELSE TriangleCoordsChoices

Remember(tetIndex, pos, coords) ==
    IF SolvesPolynomial(tetIndex, pos) /\ tetIndex \notin DOMAIN outerCoords
    THEN outerCoords @@ (tetIndex :> coords)
    ELSE outerCoords

NoCoords == [k \in {} |-> UnusedCoords]

(* What a read of tetrahedrons_[k] with k outside the vector may give: the *)
(* behaviour is undefined; the build either faults or reads other memory.  *)
GarbageWeights == { Vector4(<<1, 1, 1, 1>>, 4), Vector4(<<-1, 2, 0, 0>>, 1) }

GarbageIndices == {0, M_MAX_UNSIGNED}

NewTrace(hintIn, repeat) ==
    [ hintIn |-> hintIn,              \* hint value passed in
      repeat |-> repeat,              \* a second call with the written-back hint
      prevResult |-> IF repeat THEN result ELSE Vector4_ZERO,
                                      \* what the call before returned
      prevHint |-> IF repeat THEN tetIndexHint ELSE 0,
                                      \* hint the call before wrote back
      steps |-> 0,                    \* neighbor steps taken
      evals |-> 0,                    \* GetBarycentricCoords evaluations
      reads |-> {},                   \* indices used to subscript tetrahedrons_
      visited |-> <<>>,               \* tetrahedra evaluated, in order
      from |-> M_MAX_UNSIGNED,        \* tetrahedron of the last step
      slot |-> 4,                     \* slot chosen by the last step
      weights |-> Vector4_ZERO,       \* weights computed before the last step
      stepped |-> FALSE,              \* the last action was a neighbor step
      noneReturn |-> TRUE,            \* every step onto 'none' returned at once
      containerReads |-> {},          \* indices used to subscript the container
      mesh |-> meshVars ]             \* the mesh when the call began

(* GetInterpolationFactors returns w. *)
Return(who, w, tr) ==
    /\ result' = w
    /\ trace' = tr
    /\ pc' = IF who = "Sample" THEN "sample" ELSE "done"

Enter(who, pos, hint, repeat, cont) ==
    /\ pc = IF repeat THEN "done" ELSE "idle"
    /\ caller' = who
    /\ position' = pos
    /\ container' = cont
    /\ sampleResult' = [num |-> 0, den |-> 1]
    /\ outerCoords' = IF repeat THEN outerCoords ELSE NoCoords
    /\ UNCHANGED <<meshVars, buildVars, otherVars>>
    /\ IF IsEmptyMesh
       THEN /\ tetIndexHint' = hint
            /\ i' = 0
            /\ Return(who, Vector4_ZERO, NewTrace(hint, repeat))
       ELSE /\ tetIndexHint' = ClampHint(hint, Len(tetrahedrons_))
            /\ i' = 0
            /\ result' = Vector4_ZERO
            /\ trace' = NewTrace(hint, repeat)
            /\ pc' = "loop"

(* The assignment of lines 377-384 turned around: the neighbor slot is     *)
(* written with the hint.                                                   *)
TetrahedronsAfterStepWritten(tetIndex, slot) ==
    [tetrahedrons_ EXCEPT ![tetIndex + 1].neighbors_[slot + 1] = tetIndex]

(* tetrahedrons_ after the assignment of lines 377-384: the method is const *)
(* and the assignment writes the hint.                                      *)
TetrahedronsAfterStep(tetIndex, slot) == tetrahedrons_

(* One pass of the loop body, lines 373-384, on a valid index. *)
LoopStep ==
    /\ pc = "loop"
    /\ LoopContinues(i, Len(tetrahedrons_))
    /\ tetIndexHint < Len(tetrahedrons_)
    /\ \E coords \in CoordsOptions(tetIndexHint, position) :
        LET weights == GetBarycentricCoords(tetIndexHint, position, coords)
            slot == SelectNeighborSlot(weights)
            next == tetrahedrons_[tetIndexHint + 1].neighbors_[slot + 1]
            seen == [trace EXCEPT !.evals = @ + 1,
                                  !.reads = @ \cup {tetIndexHint},
                                  !.visited = Append(@, tetIndexHint),
                                  !.stepped = FALSE]
        IN  /\ outerCoords' = Remember(tetIndexHint, position, coords)
            /\ IF IsInsideTetrahedron(weights)
               THEN /\ Return(caller, weights, seen)
                    /\ UNCHANGED <<tetIndexHint, i, tetrahedrons_>>
               ELSE /\ tetIndexHint' = next
                    /\ tetrahedrons_' = TetrahedronsAfterStep(tetIndexHint, slot)
                    /\ i' = i + 1
                    /\ trace' = [seen EXCEPT !.steps = @ + 1,
                                             !.from = tetIndexHint,
                                             !.slot = slot,
                                             !.weights = weights,
                                             !.stepped = TRUE,
                                             !.noneReturn = @ /\ next # M_MAX_UNSIGNED]
                    /\ UNCHANGED <<pc, result>>
    /\ UNCHANGED <<vertices_, hullNormals_, ignoredVertices_, numInnerTetrahedrons_,
                   buildVars, otherVars, caller, position, container, sampleResult>>

(* Line 386: the loop ran out; the weights of the current tetrahedron. *)
FinalEvaluation ==
    /\ pc = "loop"
    /\ ~LoopContinues(i, Len(tetrahedrons_))
    /\ tetIndexHint < Len(tetrahedrons_)
    /\ \E coords \in CoordsOptions(tetIndexHint, position) :
        /\ outerCoords' = Remember(tetIndexHint, position, coords)
        /\ Return(caller, GetBarycentricCoords(tetIndexHint, position, coords),
                  [trace EXCEPT !.evals = @ + 1,
                                !.reads = @ \cup {tetIndexHint},
                                !.visited = Append(@, tetIndexHint),
                                !.stepped = FALSE])
    /\ UNCHANGED <<meshVars, buildVars, otherVars, caller, position, container,
                   sampleResult, tetIndexHint, i>>

(* Lines 373 and 386 with an index outside tetrahedrons_: undefined.  The  *)
(* call faults, or goes on with whatever the read gave.                    *)
OutOfRangeEvaluation ==
    /\ pc = "loop"
    /\ tetIndexHint >= Len(tetrahedrons_)
    /\ LET seen == [trace EXCEPT !.evals = @ + 1,
                                 !.reads = @ \cup {tetIndexHint},
                                 !.visited = Append(@, tetIndexHint),
                                 !.stepped = FALSE]
       IN  \/ /\ pc' = "crashed"
              /\ trace' = seen
              /\ UNCHANGED <<tetIndexHint, i, result>>
           \/ \E weights \in GarbageWeights, next \in GarbageIndices :
                IF ~LoopContinues(i, Len(tetrahedrons_)) \/ IsInsideTetrahedron(weights)
                THEN /\ Return(caller, weights, seen)
                     /\ UNCHANGED <<tetIndexHint, i>>
                ELSE /\ tetIndexHint' = next
                     /\ i' = i + 1
                     /\ trace' = [seen EXCEPT !.steps = @ + 1,
                                              !.from = tetIndexHint,
                                              !.slot = SelectNeighborSlot(weights),
                                              !.weights = weights,
                                              !.stepped = TRUE]
                     /\ UNCHANGED <<pc, result>>
    /\ UNCHANGED <<meshVars, buildVars, otherVars, caller, position, container,
                   sampleResult, outerCoords>>

(* container[k]; the vector has one element per vertex. *)
ContainerAt(k) == IF k \in DOMAIN container THEN container[k] ELSE 0

(* The check of line 401 left out. *)
SampleUsesFourthAlways(tetIndex) == TRUE

(* Sample, lines 396-404, after GetInterpolationFactors has returned. *)
SampleUsesFourth(tetIndex) == tetIndex < numInnerTetrahedrons_

SampleAccumulate ==
    /\ pc = "sample"
    /\ IF tetIndexHint < Len(tetrahedrons_)
       THEN LET tetrahedron == tetrahedrons_[tetIndexHint + 1]
                slots == IF SampleUsesFourth(tetIndexHint) THEN 0..3 ELSE 0..2
                term(k) == ContainerAt(tetrahedron.indices_[k + 1]) * result.num[k + 1]
                sum == term(0) + term(1) + term(2)
                       + (IF 3 \in slots THEN term(3) ELSE 0)
            IN  /\ sampleResult' = [num |-> sum, den |-> result.den]
                /\ trace' = [trace EXCEPT
                       !.containerReads = {tetrahedron.indices_[k + 1] : k \in slots},
                       !.stepped = FALSE]
       ELSE /\ sampleResult' = [num |-> 0, den |-> 1]
            /\ trace' = [trace EXCEPT !.stepped = FALSE]
    /\ pc' = "done"
    /\ UNCHANGED <<meshVars, buildVars, otherVars, caller, position, container,
                   tetIndexHint, i, result, outerCoords>>

----------------------------------------------------------------------------
(* Queries a caller may make *)

QueryPositions ==
    { <<1, 1, 1>>, <<2, 1, 0>>, <<2, 2, 2>>, <<2, 2, 1>>, <<5, 1, 1>>, <<-1, -1, 2>>,
      <<-1, -1, -1>> }

HintValues == (0..Len(tetrahedrons_)) \cup {M_MAX_UNSIGNED}

Containers ==
    { [k \in 0..(Len(vertices_) - 1) |-> k + 1],
      [k \in 0..(Len(vertices_) - 1) |-> 10 - 3 * k] }

NoContainer == [k \in {} |-> 0]

CallGetInterpolationFactors ==
    \E pos \in QueryPositions, hint \in HintValues :
        Enter("GetInterpolationFactors", pos, hint, FALSE, NoContainer)

(* The same query again, with the hint the call before wrote back. *)
CallAgain ==
    /\ pc = "done"
    /\ caller = "GetInterpolationFactors"
    /\ ~trace.repeat
    /\ Enter("GetInterpolationFactors", position, tetIndexHint, TRUE, NoContainer)

CallSample ==
    \E pos \in QueryPositions, hint \in HintValues, cont \in Containers :
        Enter("Sample", pos, hint, FALSE, cont)

----------------------------------------------------------------------------
(* The caller's query variables before any query. *)

NoTrace ==
    [ hintIn |-> 0, repeat |-> FALSE, prevResult |-> Vector4_ZERO,
      prevHint |-> 0, steps |-> 0, evals |-> 0, reads |-> {},
      visited |-> <<>>, from |-> M_MAX_UNSIGNED, slot |-> 4,
      weights |-> Vector4_ZERO, stepped |-> FALSE, noneReturn |-> TRUE,
      containerReads |-> {},
      mesh |-> <<<<>>, <<>>, <<>>, <<>>, 0>> ]

QueryInit ==
    /\ caller = "GetInterpolationFactors"
    /\ position = <<0, 0, 0>>
    /\ tetIndexHint = 0
    /\ i = 0
    /\ result = Vector4_ZERO
    /\ sampleResult = [num |-> 0, den |-> 1]
    /\ container = NoContainer
    /\ outerCoords = NoCoords
    /\ trace = NoTrace

(* A new mesh: queries made on the old one are forgotten. *)
QueryReset ==
    /\ caller' = "GetInterpolationFactors"
    /\ position' = <<0, 0, 0>>
    /\ tetIndexHint' = 0
    /\ i' = 0
    /\ result' = Vector4_ZERO
    /\ sampleResult' = [num |-> 0, den |-> 1]
    /\ container' = NoContainer
    /\ outerCoords' = NoCoords
    /\ trace' = NoTrace
    /\ UNCHANGED otherVars

UnchangedQuery ==
    UNCHANGED <<caller, position, tetIndexHint, i, result, sampleResult,
                container, outerCoords, trace, otherVars>>

----------------------------------------------------------------------------
(* SerializeValue (loading): the mesh becomes what the archive holds. *)

BareTetrahedron ==
    [ vertices |-> << <<0, 0, 0>>, <<4, 0, 0>>, <<0, 4, 0>>, <<0, 0, 4>> >>,
      tetrahedrons |-> << Tetrahedron(<<0, 1, 2, 3>>, NoNeighbors) >>,
      hullNormals |-> << <<0, 0, 0>>, <<0, 0, 0>>, <<0, 0, 0>>, <<0, 0, 0>> >>,
      ignoredVertices |-> <<>>,
      numInnerTetrahedrons |-> 1 ]

(* Two tetrahedra whose neighbor links all point at each other. *)
MiswiredPair ==
    [ vertices |-> << <<0, 0, 0>>, <<4, 0, 0>>, <<0, 4, 0>>, <<0, 0, 4>>, <<4, 4, 4>> >>,
      tetrahedrons |-> << Tetrahedron(<<0, 1, 2, 3>>, <<1, 1, 1, 1>>),
                          Tetrahedron(<<4, 1, 2, 3>>, <<0, 0, 0, 0>>) >>,
      hullNormals |-> << <<0, 0, 0>>, <<0, 0, 0>>, <<0, 0, 0>>, <<0, 0, 0>>, <<0, 0, 0>> >>,
      ignoredVertices |-> <<>>,
      numInnerTetrahedrons |-> 2 ]

Archives == { BareTetrahedron, MiswiredPair }

SerializeValue ==
    /\ pc \in {"idle", "done"}
    /\ \E archive \in Archives :
        /\ vertices_' = archive.vertices
        /\ tetrahedrons_' = archive.tetrahedrons
        /\ hullNormals_' = archive.hullNormals
        /\ ignoredVertices_' = archive.ignoredVertices
        /\ numInnerTetrahedrons_' = archive.numInnerTetrahedrons
    /\ pc' = "idle"
    /\ builtBy' = "SerializeValue"
    /\ UNCHANGED <<removed_, newIndex, largeEpsilon, repetitions>>
    /\ QueryReset

----------------------------------------------------------------------------
(* Define *)

PositionLists ==
    { <<>>,
      << <<0, 0, 0>> >>,
      << <<0, 0, 0>>, <<4, 0, 0>>, <<0, 4, 0>>, <<0, 0, 4>> >>,
      << <<0, 0, 0>>, <<4, 0, 0>>, <<0, 4, 0>>, <<0, 0, 4>>, <<0, 0, 0>> >>,
      << <<0, 0, 0>>, <<4, 0, 0>>, <<0, 4, 0>>, <<0, 0, 4>>, <<1, 1, 1>> >>,
      << <<0, 0, 0>>, <<4, 0, 0>>, <<0, 4, 0>>, <<0, 0, 4>>, <<4, 4, 4>> >>,
      << <<0, 1, 2>>, <<0, 3, 0>>, <<2, 2, 1>>, <<2, 0, 0>>, <<3, 2, 1>>, <<1, 1, 1>> >>,
      << <<3, 3, 4>>, <<0, 0, 6>>, <<5, 1, 3>>, <<3, 6, 1>>, <<6, 6, 3>>, <<1, 6, 5>>,
         <<1, 2, 6>> >>,
      << <<1, 5, 2>>, <<2, 1, 4>>, <<2, 2, 4>>, <<3, 0, 5>>, <<2, 0, 5>>, <<4, 4, 3>>,
         <<2, 4, 4>>, <<1, 2, 2>> >> }

(* Positions that lie close together: their coordinates are given in the  *)
(* unit of M_LARGE_EPSILON.                                                *)
ClusterLists ==
    { << <<1, 2, 3>>, <<0, 1, 2>>, <<2, 1, 3>>, <<0, 2, 1>>, <<2, 1, 2>> >>,
      << <<0, 3, 6>>, <<6, 2, 5>>, <<1, 1, 2>>, <<3, 3, 6>>, <<1, 2, 1>>, <<2, 4, 3>>,
         <<5, 4, 3>> >>,
      << <<4, 1, 6>>, <<1, 1, 4>>, <<1, 2, 5>>, <<2, 4, 0>>, <<1, 0, 2>> >>,
      << <<1, 2, 3>>, <<2, 3, 3>>, <<4, 4, 0>>, <<0, 3, 0>>, <<0, 0, 3>> >> }

(* Define: the mesh is reset; with positions, the super-mesh is built and  *)
(* the positions are appended after its vertices.                          *)
DefineBegin ==
    /\ pc \in {"idle", "done"}
    /\ builtBy' = "Define"
    /\ \E positions \in PositionLists \cup ClusterLists :
        /\ largeEpsilon' = IF positions \in ClusterLists THEN 1 ELSE 0
        /\ repetitions' = 0
        /\ hullNormals_' = <<>>
        /\ ignoredVertices_' = <<>>
        /\ numInnerTetrahedrons_' = 0
        /\ IF positions = <<>>
           THEN /\ vertices_' = <<>>
                /\ tetrahedrons_' = <<>>
                /\ removed_' = <<>>
                /\ newIndex' = 0
                /\ pc' = "idle"
           ELSE /\ vertices_' = SuperMeshVertices(BoundingBox(positions)) \o positions
                /\ tetrahedrons_' = SuperMeshTetrahedrons
                /\ removed_' = [ n \in 1..Len(SuperMeshTetrahedrons) |-> FALSE ]
                /\ newIndex' = NumSuperMeshVertices
                /\ pc' = "BuildTetrahedrons"
    /\ QueryReset

(* BuildTetrahedrons, one pass of its loop: vertex newIndex is inserted,   *)
(* or ignored when its hole cannot be carved.                              *)
InsertVertex ==
    /\ pc = "BuildTetrahedrons"
    /\ newIndex < Len(vertices_)
    /\ \E hole \in { FindAndRemoveIntersected(vertices_[newIndex + 1], removed_) } :
           IF hole.ok
           THEN /\ tetrahedrons_' =
                      FillStarShapedHole(hole.removedTetrahedrons, hole.holeSurface, newIndex)
                /\ removed_' = RemovedAfterFill(hole.removedTetrahedrons,
                                                Len(hole.holeSurface), removed_)
                /\ UNCHANGED ignoredVertices_
           ELSE /\ ignoredVertices_' = Append(ignoredVertices_, newIndex)
                /\ UNCHANGED <<tetrahedrons_, removed_>>
    /\ newIndex' = newIndex + 1
    /\ UNCHANGED <<vertices_, hullNormals_, numInnerTetrahedrons_, pc, largeEpsilon,
                   repetitions, builtBy>>
    /\ UnchangedQuery

DefineDisconnectSuperMesh ==
    /\ pc = "BuildTetrahedrons"
    /\ newIndex >= Len(vertices_)
    /\ \E after \in { DisconnectSuperMeshTetrahedrons(tetrahedrons_, removed_) } :
           /\ tetrahedrons_' = after.tetrahedrons
           /\ removed_' = after.removed
    /\ pc' = "EnsureMeshConnectivity"
    /\ UNCHANGED <<vertices_, hullNormals_, ignoredVertices_, numInnerTetrahedrons_,
                   newIndex, largeEpsilon, repetitions, builtBy>>
    /\ UnchangedQuery

DefineEnsureMeshConnectivity ==
    /\ pc = "EnsureMeshConnectivity"
    /\ removed_' = EnsureMeshConnectivity(tetrahedrons_, removed_)
    /\ pc' = "FilterMeshSurface"
    /\ UNCHANGED <<meshVars, newIndex, largeEpsilon, repetitions, builtBy>>
    /\ UnchangedQuery

DefineFilterMeshSurface ==
    /\ pc = "FilterMeshSurface"
    /\ \E after \in { FilterMeshSurface(tetrahedrons_, removed_) } :
           /\ tetrahedrons_' = after.tetrahedrons
           /\ removed_' = after.removed
    /\ pc' = "RemoveMarkedTetrahedrons"
    /\ UNCHANGED <<vertices_, hullNormals_, ignoredVertices_, numInnerTetrahedrons_,
                   newIndex, largeEpsilon, repetitions, builtBy>>
    /\ UnchangedQuery

(* FilterMeshSurface step by step: one repetition of its loop, or its       *)
(* return when the surface is stable.                                      *)
DefineFilterMeshSurfaceRepetition ==
    /\ pc = "FilterMeshSurface"
    /\ \E after \in { FilterMeshSurfaceRepetition(tetrahedrons_, removed_) } :
           IF after.stable
           THEN /\ pc' = "RemoveMarkedTetrahedrons"
                /\ UNCHANGED <<tetrahedrons_, removed_, repetitions>>
           ELSE /\ tetrahedrons_' = after.tetrahedrons
                /\ removed_' = after.removed
                /\ repetitions' = repetitions + 1
                /\ UNCHANGED pc
    /\ UNCHANGED <<vertices_, hullNormals_, ignoredVertices_, numInnerTetrahedrons_,
                   newIndex, largeEpsilon, builtBy>>
    /\ UnchangedQuery

(* RemoveMarkedTetrahedrons, RemoveSuperMeshVertices, UpdateIgnoredVertices *)
DefineCompact ==
    /\ pc = "RemoveMarkedTetrahedrons"
    /\ tetrahedrons_' = TetrahedronsWithoutSuperMesh(
                            RemoveMarkedTetrahedrons(tetrahedrons_, removed_))
    /\ vertices_' = VerticesWithoutSuperMesh(vertices_)
    /\ ignoredVertices_' = UpdateIgnoredVertices(ignoredVertices_)
    /\ removed_' = <<>>
    /\ newIndex' = 0
    /\ pc' = "BuildOuterTetrahedrons"
    /\ UNCHANGED <<hullNormals_, numInnerTetrahedrons_, largeEpsilon, repetitions,
                   builtBy>>
    /\ UnchangedQuery

(* BuildHullSurface, CalculateHullNormals, BuildOuterTetrahedrons; Define  *)
(* returns.                                                                *)
DefineOuter ==
    /\ pc = "BuildOuterTetrahedrons"
    /\ \E hullSurface \in { BuildHullSurface(tetrahedrons_, vertices_) } :
       \E hullNormals \in { CalculateHullNormals(hullSurface, vertices_) } :
           /\ hullNormals_' = hullNormals
           /\ numInnerTetrahedrons_' = Len(tetrahedrons_)
           /\ tetrahedrons_' = BuildOuterTetrahedrons(tetrahedrons_, hullSurface, hullNormals)
    /\ pc' = "idle"
    /\ UNCHANGED <<vertices_, ignoredVertices_, buildVars>>
    /\ UnchangedQuery

----------------------------------------------------------------------------
(* Several threads, each running GetInterpolationFactors on the same mesh  *)
(* with a hint variable of its own.  One action is one pass of the loop    *)
(* of one thread, so the passes of different threads interleave freely.    *)

NumThreads == 2

Threads == 1..NumThreads

ThreadPositions == { <<1, 1, 1>>, <<2, 2, 2>>, <<-1, -1, -1>> }

ThreadHints == {0, 2}

IdleThread ==
    [ pc |-> "idle",                  \* "idle", "loop", "done" or "crashed"
      position |-> <<0, 0, 0>>,       \* argument of the thread's query
      hintIn |-> 0,                   \* hint value passed in (history)
      tetIndexHint |-> 0,             \* the thread's hint variable (in/out)
      i |-> 0,                        \* loop counter
      result |-> Vector4_ZERO ]       \* Vector4 returned

ThreadInit ==
    /\ threads = [t \in Threads |-> IdleThread]
    /\ solved = NoCoords

ThreadsIdle == \A t \in Threads : threads[t].pc = "idle"

(* The polynomial solve is a function of the tetrahedron and the position: *)
(* every thread that evaluates it gets the same coordinates.               *)
ThreadCoordsOptions(tetIndex, pos) ==
    IF ~SolvesPolynomial(tetIndex, pos) THEN {UnusedCoords}
    ELSE IF <<tetIndex, pos>> \in DOMAIN solved THEN {solved[<<tetIndex, pos>>]}
    ELSE TriangleCoordsChoices

ThreadRemember(tetIndex, pos, coords) ==
    IF SolvesPolynomial(tetIndex, pos) /\ <<tetIndex, pos>> \notin DOMAIN solved
    THEN solved @@ (<<tetIndex, pos>> :> coords)
    ELSE solved

(* Lines 364-370 in thread t. *)
ThreadEnter ==
    /\ pc = "idle"
    /\ \E t \in Threads, pos \in ThreadPositions, hint \in ThreadHints :
        /\ threads[t].pc = "idle"
        /\ threads' = [threads EXCEPT ![t] =
              IF IsEmptyMesh
              THEN [ pc |-> "done", position |-> pos, hintIn |-> hint,
                     tetIndexHint |-> hint, i |-> 0, result |-> Vector4_ZERO ]
              ELSE [ pc |-> "loop", position |-> pos, hintIn |-> hint,
                     tetIndexHint |-> ClampHint(hint, Len(tetrahedrons_)), i |-> 0,
                     result |-> Vector4_ZERO ]]
    /\ UNCHANGED <<meshVars, buildVars, queryVars, solved, surfaceVars, gltfVars>>

(* Lines 373-384 in thread t, on a valid index. *)
ThreadLoopStep ==
    \E t \in Threads :
        /\ threads[t].pc = "loop"
        /\ LoopContinues(threads[t].i, Len(tetrahedrons_))
        /\ threads[t].tetIndexHint < Len(tetrahedrons_)
        /\ \E coords \in ThreadCoordsOptions(threads[t].tetIndexHint, threads[t].position) :
            LET tetIndex == threads[t].tetIndexHint
                weights == GetBarycentricCoords(tetIndex, threads[t].position, coords)
                slot == SelectNeighborSlot(weights)
                next == tetrahedrons_[tetIndex + 1].neighbors_[slot + 1]
            IN  /\ solved' = ThreadRemember(tetIndex, threads[t].position, coords)
                /\ IF IsInsideTetrahedron(weights)
                   THEN /\ threads' = [threads EXCEPT ![t].pc = "done",
                                                      ![t].result = weights]
                        /\ UNCHANGED tetrahedrons_
                   ELSE /\ threads' = [threads EXCEPT ![t].tetIndexHint = next,
                                                      ![t].i = @ + 1]
                        /\ tetrahedrons_' = TetrahedronsAfterStep(tetIndex, slot)
        /\ UNCHANGED <<vertices_, hullNormals_, ignoredVertices_, numInnerTetrahedrons_,
                       buildVars, queryVars, surfaceVars, gltfVars>>

(* Line 386 in thread t. *)
ThreadFinalEvaluation ==
    \E t \in Threads :
        /\ threads[t].pc = "loop"
        /\ ~LoopContinues(threads[t].i, Len(tetrahedrons_))
        /\ threads[t].tetIndexHint < Len(tetrahedrons_)
        /\ \E coords \in ThreadCoordsOptions(threads[t].tetIndexHint, threads[t].position) :
            /\ solved' = ThreadRemember(threads[t].tetIndexHint, threads[t].position, coords)
            /\ threads' = [threads EXCEPT
                  ![t].pc = "done",
                  ![t].result = GetBarycentricCoords(threads[t].tetIndexHint,
                                                     threads[t].position, coords)]
        /\ UNCHANGED <<meshVars, buildVars, queryVars, surfaceVars, gltfVars>>

(* Lines 373 and 386 in thread t with an index outside tetrahedrons_:      *)
(* undefined.  The thread faults, or goes on with whatever the read gave.  *)
ThreadOutOfRangeEvaluation ==
    \E t \in Threads :
        /\ threads[t].pc = "loop"
        /\ threads[t].tetIndexHint >= Len(tetrahedrons_)
        /\ \/ threads' = [threads EXCEPT ![t].pc = "crashed"]
           \/ \E weights \in GarbageWeights, next \in GarbageIndices :
                threads' = [threads EXCEPT ![t] =
                    IF \/ ~LoopContinues(threads[t].i, Len(tetrahedrons_))
                       \/ IsInsideTetrahedron(weights)
                    THEN [@ EXCEPT !.pc = "done", !.result = weights]
                    ELSE [@ EXCEPT !.tetIndexHint = next, !.i = @ + 1]]
        /\ UNCHANGED <<meshVars, buildVars, queryVars, solved, surfaceVars, gltfVars>>

----------------------------------------------------------------------------
(* A surface object of its own: faces are put into faces_ and the          *)
(* adjacency is asked for.                                                 *)

MaxFaces == 4

(* The positions of the vertices 0..3 the triangles of the surface are on. *)
SurfaceVertices == << <<0, 0, 0>>, <<1, 0, 0>>, <<0, 1, 0>>, <<0, 0, 1>> >>

(* The triangles a caller puts into faces_: the four faces of a            *)
(* tetrahedron on the vertices 0..3, one of them also the other way round, *)
(* and a triangle that has a vertex twice.  None belongs to a tetrahedron; *)
(* the unused vertex is the first of 0..3 that is not a corner.            *)
SurfaceTriangles ==
    { [ indices_ |-> corners,
        unusedIndex_ |-> CHOOSE v \in 0..3 :
                            /\ v \notin SeqToSet(corners)
                            /\ \A w \in 0..3 : w \notin SeqToSet(corners) => v <= w,
        neighbors_ |-> NoTriangleNeighbors, tetIndex_ |-> M_MAX_UNSIGNED,
        tetFace_ |-> 0 ] :
      corners \in { <<0, 1, 2>>, <<0, 3, 1>>, <<1, 3, 2>>, <<0, 2, 3>>,
                    <<0, 2, 1>>, <<0, 1, 0>> } }

NoCall == [ called |-> "none", before |-> <<>>, returned |-> FALSE ]

SurfaceInit ==
    /\ faces_ = <<>>
    /\ surfaceCall = NoCall

UnchangedMesh == UNCHANGED <<meshVars, buildVars, queryVars, threadVars, gltfVars>>

(* faces_.push_back(triangle) *)
SurfaceAddFace ==
    /\ Len(faces_) < MaxFaces
    /\ \E triangle \in SurfaceTriangles : faces_' = Append(faces_, triangle)
    /\ surfaceCall' = NoCall
    /\ UnchangedMesh

(* TetrahedralMeshSurface::Clear *)
SurfaceClear ==
    /\ faces_ # <<>>
    /\ faces_' = <<>>
    /\ surfaceCall' = NoCall
    /\ UnchangedMesh

SurfaceCalculateAdjacency ==
    /\ \E call \in { CalculateAdjacency(faces_) } :
        /\ faces_' = call.faces
        /\ surfaceCall' = [ called |-> "CalculateAdjacency", before |-> faces_,
                          returned |-> call.ok ]
    /\ UnchangedMesh

(* faces_[face].Normalize(vertices) on one triangle of the surface. *)
SurfaceNormalize ==
    /\ \E face \in 0..(Len(faces_) - 1) :
        /\ faces_' = [faces_ EXCEPT ![face + 1] = Normalize(@, SurfaceVertices)]
        /\ surfaceCall' = [ called |-> "Normalize", before |-> faces_,
                            returned |-> FALSE, face |-> face ]
    /\ UnchangedMesh

SurfaceIsClosedSurface ==
    /\ surfaceCall' = [ called |-> "IsClosedSurface", before |-> faces_,
                      returned |-> IsClosedSurface(faces_) ]
    /\ UNCHANGED faces_
    /\ UnchangedMesh

----------------------------------------------------------------------------
(* GLTFImporterContext: the names of the resources.  A string is the       *)
(* sequence of its characters.                                             *)

NumCandidates == 1024

TexturesPrefix == <<"T", "e", "x", "t", "u", "r", "e", "s", "/">>

DefaultTextureName == <<"T", "e", "x", "t", "u", "r", "e">>

PngSuffix == <<".", "p", "n", "g">>

JpgSuffix == <<".", "j", "p", "g">>

(* The decimal digits of a number, as Format writes {2}. *)
RECURSIVE Decimal(_)
Decimal(n) ==
    LET digit(d) == <<"0", "1", "2", "3", "4", "5", "6", "7", "8", "9">>[d + 1]
    IN  IF n < 10 THEN <<digit(n)>>
        ELSE Decimal(n \div 10) \o <<digit(n % 10)>>

(* Format(nameFormat, prefix, body, i, suffix) with the format of line 102. *)
FormatName(prefix, body, index, suffix) ==
    IF index # 0
    THEN prefix \o body \o <<"_">> \o Decimal(index) \o suffix
    ELSE prefix \o body \o suffix

(* The name is returned and not put into localResourceNames_. *)
CreateLocalResourceNameNotRecorded(names, nameHint, prefix, defaultName, suffix) ==
    LET body == IF nameHint # <<>> THEN nameHint ELSE defaultName
        taken(index) == FormatName(prefix, body, index, suffix) \in names
    IN  IF \A index \in 0..(NumCandidates - 1) : taken(index)
        THEN [ threw |-> TRUE, name |-> <<>>, names |-> names ]
        ELSE [ threw |-> FALSE,
               name |-> FormatName(prefix, body,
                            CHOOSE index \in 0..(NumCandidates - 1) :
                                ~taken(index) /\ \A lower \in 0..(index - 1) : taken(lower),
                            suffix),
               names |-> names ]

(* GLTFImporterContext::CreateLocalResourceName on a context whose         *)
(* localResourceNames_ is names: [threw, name, names].                     *)
CreateLocalResourceName(names, nameHint, prefix, defaultName, suffix) ==
    LET body == IF nameHint # <<>> THEN nameHint ELSE defaultName
        taken(index) == FormatName(prefix, body, index, suffix) \in names
    IN  IF \A index \in 0..(NumCandidates - 1) : taken(index)
        THEN [ threw |-> TRUE, name |-> <<>>, names |-> names ]
        ELSE LET first == CHOOSE index \in 0..(NumCandidates - 1) :
                            ~taken(index) /\ \A lower \in 0..(index - 1) : taken(lower)
             IN  [ threw |-> FALSE,
                   name |-> FormatName(prefix, body, first, suffix),
                   names |-> names \cup {FormatName(prefix, body, first, suffix)} ]

MaxNames == 3

(* The names the images of a file may have: none, a name, and a name that  *)
(* looks like an earlier name with a number.                               *)
NameHints == { <<>>, <<"a">>, <<"a", "_", "1">> }

(* The images of a file, in the order in which they are named: every short *)
(* list, and a file with more unnamed images than there are candidates.    *)
ImageLists ==
    LET images == [ nameHint : NameHints, suffix : {PngSuffix, JpgSuffix} ]
    IN  UNION { [ 1..n -> images ] : n \in 0..MaxNames }
        \cup { [ n \in 1..(NumCandidates + 1) |->
                    [ nameHint |-> <<>>, suffix |-> PngSuffix ] ] }

(* A pointer is the sequence of the one object it points to; the null      *)
(* pointer is the empty sequence.                                          *)
nullptr == <<>>

NoGltfCall == [ called |-> "none" ]

NoTexturesMRO == [ key \in {} |-> 0 ]

GltfInit ==
    /\ localResourceNames_ = {}
    /\ pendingNames = <<>>
    /\ texturesAsIs_ = <<>>
    /\ texturesMRO_ = NoTexturesMRO
    /\ texturesCooked_ = FALSE
    /\ impl_ = nullptr
    /\ savedFiles = {}
    /\ returnedNames = {}
    /\ handedOut = {}
    /\ gltfCall = NoGltfCall

UnchangedOthers == UNCHANGED <<meshVars, buildVars, queryVars, threadVars, surfaceVars>>

(* A context is constructed for a file (lines 87-94). *)
ContextConstruct ==
    /\ pendingNames = <<>>
    /\ \E images \in ImageLists \ {<<>>} : pendingNames' = images
    /\ localResourceNames_' = {}
    /\ returnedNames' = {}
    /\ gltfCall' = NoGltfCall
    /\ UNCHANGED <<texturesAsIs_, texturesMRO_, texturesCooked_, impl_, savedFiles,
                   handedOut>>
    /\ UnchangedOthers

(* The next image of the file is given its name (lines 566-577).  When the *)
(* call throws, the construction is given up.                              *)
CallCreateLocalResourceName ==
    /\ pendingNames # <<>>
    /\ \E call \in { CreateLocalResourceName(localResourceNames_,
                        Head(pendingNames).nameHint, TexturesPrefix,
                        DefaultTextureName, Head(pendingNames).suffix) } :
        /\ localResourceNames_' = call.names
        /\ returnedNames' = IF call.threw THEN returnedNames
                            ELSE returnedNames \cup {call.name}
        /\ pendingNames' = IF call.threw THEN <<>> ELSE Tail(pendingNames)
        /\ gltfCall' = [ called |-> "CreateLocalResourceName",
                         nameHint |-> Head(pendingNames).nameHint,
                         suffix |-> Head(pendingNames).suffix,
                         threw |-> call.threw,
                         name |-> call.name,
                         recorded |-> localResourceNames_,
                         returned |-> returnedNames ]
    /\ UNCHANGED <<texturesAsIs_, texturesMRO_, texturesCooked_, impl_, savedFiles,
                   handedOut>>
    /\ UnchangedOthers

----------------------------------------------------------------------------
(* GLTFTextureImporter.  An importer is the record of its members and of   *)
(* the names of its context; a texture object is known by its name, which  *)
(* no other texture has.  A call gives [self, threw, value].               *)

NumTextures == 2

(* index >= size where index is an int and size is unsigned: the int is    *)
(* converted to unsigned first, and a negative one becomes at least 2^31,  *)
(* which is above every size of a vector.                                  *)
UnsignedNotLess(index, size) == index < 0 \/ index >= size

Thrown(self) == [ self |-> self, threw |-> TRUE, value |-> <<>> ]

Returned(self, value) == [ self |-> self, threw |-> FALSE, value |-> value ]

(* The textures of a file: the name and the type of the image, and the     *)
(* size the image decodes to, <<0, 0>> when it cannot be decoded.          *)
TextureFiles ==
    LET textures == [ nameHint : {<<>>}, suffix : {PngSuffix},
                      size : { <<0, 0>>, <<1, 2>> } ]
    IN  UNION { [ 1..n -> textures ] : n \in 0..NumTextures }

(* The constructor: every texture of the file is imported as it is. *)
RECURSIVE ImportTextures(_, _, _)
ImportTextures(self, file, textureIndex) ==
    IF textureIndex >= Len(file) THEN Returned(self, <<>>)
    ELSE LET sourceImage == file[textureIndex + 1]
             named == CreateLocalResourceName(self.localResourceNames_,
                        sourceImage.nameHint, TexturesPrefix, DefaultTextureName,
                        sourceImage.suffix)
             texture == [ isReferenced_ |-> FALSE,
                          nameHint_ |-> sourceImage.nameHint,
                          image_ |-> sourceImage.size,
                          fakeTexture_ |-> named.name ]
         IN  IF named.threw THEN Thrown(self)
             ELSE ImportTextures(
                    [self EXCEPT !.localResourceNames_ = named.names,
                                 !.texturesAsIs_ = Append(@, texture)],
                    file, textureIndex + 1)

GLTFTextureImporter(names, file) ==
    ImportTextures([ texturesAsIs_ |-> <<>>, texturesMRO_ |-> NoTexturesMRO,
                     texturesCooked_ |-> FALSE, localResourceNames_ |-> names ],
                   file, 0)

(* GLTFTextureImporter::ReferenceTextureAsIs *)
ReferenceTextureAsIs(self, textureIndex) ==
    IF self.texturesCooked_ THEN Thrown(self)
    ELSE IF UnsignedNotLess(textureIndex, Len(self.texturesAsIs_)) THEN Thrown(self)
    ELSE Returned([self EXCEPT !.texturesAsIs_[textureIndex + 1].isReferenced_ = TRUE],
                  self.texturesAsIs_[textureIndex + 1].fakeTexture_)

(* The entry of the partial match is copied to the new key and not erased. *)
RepurposedNotErased(texturesMRO, from, to) ==
    [ key \in DOMAIN texturesMRO \cup {to} |->
        IF key = to THEN texturesMRO[from] ELSE texturesMRO[key] ]

(* The map with the entry of one key moved to another key. *)
Repurposed(texturesMRO, from, to) ==
    [ key \in (DOMAIN texturesMRO \ {from}) \cup {to} |->
        IF key = to THEN texturesMRO[from] ELSE texturesMRO[key] ]

(* GLTFTextureImporter::ReferenceRoughnessMetallicOcclusionTexture *)
ReferenceRoughnessMetallicOcclusionTexture(self, metallicRoughnessTextureIndex, occlusionTextureIndex) ==
    LET key == <<metallicRoughnessTextureIndex, occlusionTextureIndex>>
        partialKeyA == <<metallicRoughnessTextureIndex, -1>>
        partialKeyB == <<-1, occlusionTextureIndex>>
        numTextures == Len(self.texturesAsIs_)
        referenceTexture ==
            IF metallicRoughnessTextureIndex >= 0
            THEN self.texturesAsIs_[metallicRoughnessTextureIndex + 1]
            ELSE self.texturesAsIs_[occlusionTextureIndex + 1]
        named == CreateLocalResourceName(self.localResourceNames_,
                    referenceTexture.nameHint_, TexturesPrefix, DefaultTextureName,
                    PngSuffix)
        moved(from) ==
            Returned([self EXCEPT !.texturesMRO_ = Repurposed(@, from, key)],
                     self.texturesMRO_[from].fakeTexture_)
    IN  IF self.texturesCooked_ THEN Thrown(self)
        ELSE IF metallicRoughnessTextureIndex < 0 /\ occlusionTextureIndex < 0
        THEN Thrown(self)
        ELSE IF /\ metallicRoughnessTextureIndex >= 0
                /\ UnsignedNotLess(metallicRoughnessTextureIndex, numTextures)
        THEN Thrown(self)
        ELSE IF /\ occlusionTextureIndex >= 0
                /\ UnsignedNotLess(occlusionTextureIndex, numTextures)
        THEN Thrown(self)
        ELSE IF key \in DOMAIN self.texturesMRO_
        THEN Returned(self, self.texturesMRO_[key].fakeTexture_)
        ELSE IF partialKeyA \in DOMAIN self.texturesMRO_ THEN moved(partialKeyA)
        ELSE IF partialKeyB \in DOMAIN self.texturesMRO_ THEN moved(partialKeyB)
        ELSE IF named.threw THEN Thrown(self)
        ELSE Returned(
                [self EXCEPT !.localResourceNames_ = named.names,
                             !.texturesMRO_ =
                                (key :> [ fakeTexture_ |-> named.name,
                                          repackedImage_ |-> nullptr ]) @@ @],
                named.name)

(* GLTFTextureImporter::ImportRMOTexture for the textures of a key: the    *)
(* size and the number of channels of the repacked image.                  *)
ImportRMOTexture(self, key) ==
    LET sizeOf(textureIndex) ==
            IF textureIndex >= 0 THEN self.texturesAsIs_[textureIndex + 1].image_
            ELSE <<0, 0>>
        metallicRoughnessImageSize == sizeOf(key[1])
        occlusionImageSize == sizeOf(key[2])
        max(a, b) == IF a > b THEN a ELSE b
        repackedImageSize ==
            << max(metallicRoughnessImageSize[1], occlusionImageSize[1]),
               max(metallicRoughnessImageSize[2], occlusionImageSize[2]) >>
    IN  IF key[1] < 0 /\ key[2] < 0 THEN Thrown(self)
        ELSE IF repackedImageSize[1] <= 0 \/ repackedImageSize[2] <= 0
        THEN Thrown(self)
        ELSE Returned(self, [ size |-> repackedImageSize,
                              components |-> IF key[2] >= 0 THEN 4 ELSE 3 ])

(* The map after the loop of CookTextures has come to the entries of done. *)
Repacked(self, done) ==
    [ key \in DOMAIN self.texturesMRO_ |->
        IF key \in done /\ ~ImportRMOTexture(self, key).threw
        THEN [self.texturesMRO_[key] EXCEPT
                !.repackedImage_ = <<ImportRMOTexture(self, key).value>>]
        ELSE self.texturesMRO_[key] ]

(* texturesCooked_ is set when the loop is through, not before it. *)
CookTexturesFlagLast(self, done) ==
    IF self.texturesCooked_ THEN Thrown(self)
    ELSE IF \E key \in DOMAIN self.texturesMRO_ : ImportRMOTexture(self, key).threw
    THEN Thrown([self EXCEPT !.texturesMRO_ = Repacked(self, done)])
    ELSE Returned([self EXCEPT !.texturesCooked_ = TRUE,
                               !.texturesMRO_ = Repacked(self, DOMAIN @)], <<>>)

(* GLTFTextureImporter::CookTextures.  The map is unordered: when an entry *)
(* cannot be repacked, done are the entries the loop came to before it.    *)
CookTextures(self, done) ==
    IF self.texturesCooked_ THEN Thrown(self)
    ELSE IF \E key \in DOMAIN self.texturesMRO_ : ImportRMOTexture(self, key).threw
    THEN Thrown([self EXCEPT !.texturesCooked_ = TRUE,
                             !.texturesMRO_ = Repacked(self, done)])
    ELSE Returned([self EXCEPT !.texturesCooked_ = TRUE,
                               !.texturesMRO_ = Repacked(self, DOMAIN @)], <<>>)

(* The calls that make one more texture than MaxHandedOut are left out. *)
MaxHandedOut == 2

(* The importer the variables hold. *)
TextureImporter ==
    [ texturesAsIs_ |-> texturesAsIs_, texturesMRO_ |-> texturesMRO_,
      texturesCooked_ |-> texturesCooked_,
      localResourceNames_ |-> localResourceNames_ ]

(* CookTextures has been called on the importer the variables hold. *)
CookTexturesCalled ==
    /\ "cookTexturesCalled" \in DOMAIN gltfCall
    /\ gltfCall.cookTexturesCalled

(* A call on the importer has ended: its members, and what the caller saw. *)
TextureCallEnds(name, arguments, call) ==
    /\ texturesAsIs_' = call.self.texturesAsIs_
    /\ texturesMRO_' = call.self.texturesMRO_
    /\ texturesCooked_' = call.self.texturesCooked_
    /\ localResourceNames_' = call.self.localResourceNames_
    /\ gltfCall' = [ called |-> name, arguments |-> arguments,
                     threw |-> call.threw, value |-> call.value,
                     before |-> TextureImporter,
                     afterCookTextures |->
                        name # "GLTFTextureImporter" /\ CookTexturesCalled,
                     cookTexturesCalled |->
                        \/ name = "CookTextures"
                        \/ name # "GLTFTextureImporter" /\ CookTexturesCalled ]
    /\ UNCHANGED <<pendingNames, impl_, savedFiles, returnedNames>>
    /\ UnchangedOthers

TextureImporterConstruct ==
    \E file \in TextureFiles :
        /\ TextureCallEnds("GLTFTextureImporter", <<file>>,
                           GLTFTextureImporter({}, file))
        /\ handedOut' = {}

CallReferenceTextureAsIs ==
    \E textureIndex \in (-1)..NumTextures :
        /\ TextureCallEnds("ReferenceTextureAsIs", <<textureIndex>>,
                           ReferenceTextureAsIs(TextureImporter, textureIndex))
        /\ UNCHANGED handedOut

CallReferenceRoughnessMetallicOcclusionTexture ==
    \E metallicRoughness \in (-1)..NumTextures, occlusion \in (-1)..NumTextures :
        \E call \in { ReferenceRoughnessMetallicOcclusionTexture(
                            TextureImporter, metallicRoughness, occlusion) } :
            /\ TextureCallEnds("ReferenceRoughnessMetallicOcclusionTexture",
                               <<metallicRoughness, occlusion>>, call)
            /\ handedOut' =
                    IF call.threw THEN handedOut
                    ELSE handedOut \cup
                            { [ key |-> <<metallicRoughness, occlusion>>,
                                fakeTexture_ |-> call.value ] }
            /\ Cardinality({ reference.fakeTexture_ : reference \in handedOut' })
                    <= MaxHandedOut

CallCookTextures ==
    \E done \in SUBSET (DOMAIN texturesMRO_) :
        /\ TextureCallEnds("CookTextures", <<>>, CookTextures(TextureImporter, done))
        /\ UNCHANGED handedOut

(***************************************************************************)
(* GLTFImporter and its Impl                                               *)
(***************************************************************************)

MaxMaterials == 1

MaterialsPrefix == <<"M", "a", "t", "e", "r", "i", "a", "l", "s", "/">>

DefaultMaterialName == <<"M", "a", "t", "e", "r", "i", "a", "l">>

XmlSuffix == <<".", "x", "m", "l">>

SceneName == <<"S", "c", "e", "n", "e">>

(* The materials the meshes of a file use: the indices of the textures of  *)
(* each, all with the standard UV; the index of the metallic-roughness     *)
(* texture may be one the file does not have.                              *)
MaterialLists ==
    LET materials == [ baseColorTexture : {-1, 0},
                       metallicRoughnessTexture : (-1)..NumTextures,
                       occlusionTexture : {-1, 0} ]
    IN  UNION { [ 1..n -> materials ] : n \in 0..MaxMaterials }

(* The files LoadFile is given: one that LoadGLTF cannot read, and the     *)
(* readable ones, whose scenes can be imported or not.                     *)
GltfFiles ==
    [ readable : {FALSE}, textures : {<<>>}, materials : {<<>>},
      scenesImportable : {FALSE} ]
    \cup [ readable : {TRUE}, textures : TextureFiles, materials : MaterialLists,
           scenesImportable : BOOLEAN ]

(* GLTFMaterialImporter::GetOrImportMaterial for the materials of the file *)
(* from materialIndex on; self is the texture importer, value the names of *)
(* the materials.                                                          *)
RECURSIVE ImportMaterials(_, _, _, _)
ImportMaterials(self, sourceMaterials, materialIndex, materials) ==
    IF materialIndex >= Len(sourceMaterials) THEN Returned(self, materials)
    ELSE
    LET sourceMaterial == sourceMaterials[materialIndex + 1]
        diffuse == IF sourceMaterial.baseColorTexture >= 0
                   THEN ReferenceTextureAsIs(self, sourceMaterial.baseColorTexture)
                   ELSE Returned(self, <<>>)
        metallicRoughnessTextureIndex == sourceMaterial.metallicRoughnessTexture
        occlusionTextureIndex == sourceMaterial.occlusionTexture
        specular == IF metallicRoughnessTextureIndex >= 0 \/ occlusionTextureIndex >= 0
                    THEN ReferenceRoughnessMetallicOcclusionTexture(diffuse.self,
                            metallicRoughnessTextureIndex, occlusionTextureIndex)
                    ELSE Returned(diffuse.self, <<>>)
        named == CreateLocalResourceName(specular.self.localResourceNames_, <<>>,
                    MaterialsPrefix, DefaultMaterialName, XmlSuffix)
    IN  IF diffuse.threw THEN Thrown(self)
        ELSE IF specular.threw THEN Thrown(self)
        ELSE IF named.threw THEN Thrown(self)
        ELSE ImportMaterials(
                [specular.self EXCEPT !.localResourceNames_ = named.names],
                sourceMaterials, materialIndex + 1, materials \cup {named.name})

(* GLTFImporter::Impl::Impl: self is the texture importer of the Impl,     *)
(* value the other members.                                                *)
Impl(file) ==
    IF ~file.readable THEN Thrown(<<>>)
    ELSE
    LET textureImporter == GLTFTextureImporter({}, file.textures)
        imported == ImportMaterials(textureImporter.self, file.materials, 0, {})
    IN  IF textureImporter.threw THEN Thrown(<<>>)
        ELSE IF imported.threw THEN Thrown(<<>>)
        ELSE Returned(imported.self,
                [ scenesImportable |-> file.scenesImportable,
                  materials_ |-> imported.value,
                  importedScenes_ |-> {},
                  cooked |-> FALSE ])

(* GLTFImporter::Impl::CookResources; members are the members of the Impl  *)
(* but the texture importer, which is self.                                *)
ImplCookResources(self, members, done) ==
    LET cooking == CookTextures(self, done)
    IN  IF cooking.threw THEN [cooking EXCEPT !.value = members]
        ELSE IF ~members.scenesImportable
        THEN [ self |-> cooking.self, threw |-> TRUE, value |-> members ]
        ELSE [ self |-> cooking.self, threw |-> FALSE,
               value |-> [members EXCEPT !.importedScenes_ = {SceneName},
                                         !.cooked = TRUE] ]

(* The indices of the textures that have been referenced as they are. *)
ReferencedAsIs(self) ==
    { textureIndex \in 0..(Len(self.texturesAsIs_) - 1) :
        self.texturesAsIs_[textureIndex + 1].isReferenced_ }

(* The names GLTFTextureImporter::SaveResources saves before it comes to   *)
(* the metallic-roughness-occlusion textures.                              *)
SavedAsIs(self) ==
    { self.texturesAsIs_[textureIndex + 1].fakeTexture_ :
        textureIndex \in ReferencedAsIs(self) }

(* The names GLTFImporter::Impl::SaveResources saves. *)
ImplSavedResources(self, members) ==
    SavedAsIs(self)
    \cup { self.texturesMRO_[key].fakeTexture_ : key \in DOMAIN self.texturesMRO_ }
    \cup members.materials_
    \cup members.importedScenes_

(* GLTFImporterContext::SaveResource reads the name of a null image. *)
SavesNullImage(self) ==
    \E key \in DOMAIN self.texturesMRO_ :
        self.texturesMRO_[key].repackedImage_ = nullptr

(* The try and catch of the three methods of GLTFImporter: the exception   *)
(* is logged and the method returns false.                                 *)
NotCaught(call, returned) ==
    [ raised |-> call.threw, threw |-> call.threw, value |-> returned ]

CatchRuntimeException(call, returned) ==
    [ raised |-> call.threw, threw |-> FALSE,
      value |-> IF call.threw THEN FALSE ELSE returned ]

(* A call of LoadFile has returned true on the importer. *)
LoadFileSucceeded ==
    /\ "loadFileSucceeded" \in DOMAIN gltfCall
    /\ gltfCall.loadFileSucceeded

Crashed == "crashed" \in DOMAIN gltfCall /\ gltfCall.crashed

(* The Impl has been cooked: CookResources has returned true on it. *)
IsCooked == impl_ # nullptr /\ impl_[1].cooked

(* A method of GLTFImporter has ended; savedFiles are the files of the     *)
(* output path of the Impl, and every file is loaded with an output path   *)
(* of its own.                                                             *)
ImporterCallEnds(name, outcome, saved, crashed) ==
    /\ gltfCall' = [ called |-> name, raised |-> outcome.raised,
                     threw |-> outcome.threw, value |-> outcome.value,
                     afterLoadFile |-> LoadFileSucceeded,
                     loadFileSucceeded |->
                        \/ LoadFileSucceeded
                        \/ name = "LoadFile" /\ ~outcome.raised,
                     cookedBefore |-> IsCooked, saved |-> saved,
                     crashed |-> crashed ]
    /\ savedFiles' = IF name = "LoadFile" /\ ~outcome.raised THEN {}
                     ELSE savedFiles \cup saved
    /\ UNCHANGED <<pendingNames, returnedNames, handedOut>>
    /\ UnchangedOthers

(* GLTFImporter::LoadFile *)
LoadFile ==
    /\ ~Crashed
    /\ \E file \in GltfFiles :
        \E made \in { Impl(file) } :
            /\ IF made.threw
               THEN UNCHANGED <<impl_, texturesAsIs_, texturesMRO_, texturesCooked_,
                                localResourceNames_>>
               ELSE /\ impl_' = <<made.value>>
                    /\ texturesAsIs_' = made.self.texturesAsIs_
                    /\ texturesMRO_' = made.self.texturesMRO_
                    /\ texturesCooked_' = made.self.texturesCooked_
                    /\ localResourceNames_' = made.self.localResourceNames_
            /\ ImporterCallEnds("LoadFile", CatchRuntimeException(made, TRUE),
                                {}, FALSE)

(* GLTFImporter::CookResources *)
CookResources ==
    /\ ~Crashed
    /\ IF impl_ = nullptr
       THEN /\ ImporterCallEnds("CookResources",
                    CatchRuntimeException(Thrown(<<>>), TRUE), {}, FALSE)
            /\ UNCHANGED <<impl_, texturesAsIs_, texturesMRO_, texturesCooked_,
                           localResourceNames_>>
       ELSE \E done \in SUBSET (DOMAIN texturesMRO_) :
            \E cooking \in { ImplCookResources(TextureImporter, impl_[1], done) } :
                /\ impl_' = <<cooking.value>>
                /\ texturesAsIs_' = cooking.self.texturesAsIs_
                /\ texturesMRO_' = cooking.self.texturesMRO_
                /\ texturesCooked_' = cooking.self.texturesCooked_
                /\ localResourceNames_' = cooking.self.localResourceNames_
                /\ ImporterCallEnds("CookResources",
                        CatchRuntimeException(cooking, TRUE), {}, FALSE)

(* GLTFImporter::SaveResources.  Saving a metallic-roughness-occlusion     *)
(* texture that has no image reads the name of a null pointer: the process *)
(* ends there, or the name read is one the context does not know and       *)
(* SaveResource throws.                                                    *)
SaveResources ==
    /\ ~Crashed
    /\ UNCHANGED <<impl_, texturesAsIs_, texturesMRO_, texturesCooked_,
                   localResourceNames_>>
    /\ IF impl_ = nullptr
       THEN ImporterCallEnds("SaveResources",
                CatchRuntimeException(Thrown(<<>>), TRUE), {}, FALSE)
       ELSE IF SavesNullImage(TextureImporter)
       THEN \/ ImporterCallEnds("SaveResources",
                    CatchRuntimeException(Thrown(<<>>), TRUE),
                    SavedAsIs(TextureImporter), FALSE)
            \/ ImporterCallEnds("SaveResources", NotCaught(Returned(<<>>, <<>>), <<>>),
                    SavedAsIs(TextureImporter), TRUE)
       ELSE ImporterCallEnds("SaveResources",
                CatchRuntimeException(Returned(<<>>, <<>>), TRUE),
                ImplSavedResources(TextureImporter, impl_[1]), FALSE)

----------------------------------------------------------------------------

Init ==
    /\ vertices_ = <<>>
    /\ tetrahedrons_ = <<>>
    /\ hullNormals_ = <<>>
    /\ ignoredVertices_ = <<>>
    /\ numInnerTetrahedrons_ = 0
    /\ removed_ = <<>>
    /\ newIndex = 0
    /\ largeEpsilon = 0
    /\ repetitions = 0
    /\ builtBy = "constructor"
    /\ pc = "idle"
    /\ QueryInit
    /\ ThreadInit
    /\ SurfaceInit
    /\ GltfInit

Next ==
    \/ DefineBegin
    \/ InsertVertex
    \/ DefineDisconnectSuperMesh
    \/ DefineEnsureMeshConnectivity
    \/ DefineFilterMeshSurface
    \/ DefineCompact
    \/ DefineOuter
    \/ SerializeValue
    \/ CallGetInterpolationFactors
    \/ CallAgain
    \/ CallSample
    \/ LoopStep
    \/ FinalEvaluation
    \/ OutOfRangeEvaluation
    \/ SampleAccumulate

Spec == Init /\ [][Next]_vars

(* The mesh is built or loaded while no thread runs a query; once a thread *)
(* has begun one, the mesh is left as it is.                               *)
ThreadBuild ==
    /\ ThreadsIdle
    /\ \/ DefineBegin
       \/ InsertVertex
       \/ DefineDisconnectSuperMesh
       \/ DefineEnsureMeshConnectivity
       \/ DefineFilterMeshSurface
       \/ DefineCompact
       \/ DefineOuter
       \/ SerializeValue

ThreadNext ==
    \/ ThreadBuild
    \/ ThreadEnter
    \/ ThreadLoopStep
    \/ ThreadFinalEvaluation
    \/ ThreadOutOfRangeEvaluation

ThreadSpec == Init /\ [][ThreadNext]_vars

(* Define with the surface filter taken one repetition at a time; a      *)
(* repetition that can be taken is taken.                                  *)
FilterNext ==
    \/ DefineBegin
    \/ InsertVertex
    \/ DefineDisconnectSuperMesh
    \/ DefineEnsureMeshConnectivity
    \/ DefineFilterMeshSurfaceRepetition
    \/ DefineCompact
    \/ DefineOuter

FilterSpec ==
    Init /\ [][FilterNext]_vars /\ WF_vars(DefineFilterMeshSurfaceRepetition)

SurfaceNext ==
    \/ SurfaceAddFace
    \/ SurfaceClear
    \/ SurfaceCalculateAdjacency
    \/ SurfaceNormalize
    \/ SurfaceIsClosedSurface

SurfaceSpec == Init /\ [][SurfaceNext]_vars

NameNext ==
    \/ ContextConstruct
    \/ CallCreateLocalResourceName

NameSpec == Init /\ [][NameNext]_vars

TextureNext ==
    \/ TextureImporterConstruct
    \/ CallReferenceTextureAsIs
    \/ CallReferenceRoughnessMetallicOcclusionTexture
    \/ CallCookTextures

TextureSpec == Init /\ [][TextureNext]_vars

ImporterNext ==
    \/ LoadFile
    \/ CookResources
    \/ SaveResources

ImporterSpec == Init /\ [][ImporterNext]_vars

----------------------------------------------------------------------------
(* Properties *)

(* Define has returned and the mesh is the one it built. *)
DefineReturned ==
    /\ builtBy = "Define"
    /\ pc \in {"idle", "loop", "sample", "done", "crashed"}

(* A query has been entered on the current mesh. *)
QueryEntered == pc \in {"loop", "sample", "done", "crashed"}

(* GetInterpolationFactors has returned. *)
FactorsReturned == pc \in {"sample", "done"}

(* The vertex indices of a tetrahedron other than the one in the slot. *)
FaceVertices(tetrahedron, slot) ==
    { tetrahedron.indices_[k + 1] : k \in (0..3) \ {slot} }

(* The slots of tetrahedron u that list tetrahedron t. *)
SlotsListing(u, t) ==
    { g \in 0..3 : tetrahedrons_[u + 1].neighbors_[g + 1] = t }

(* C1 as stated: after Define returns, every neighbor U of a tetrahedron T *)
(* on slot f that is not 'none' is a tetrahedron that lists T in exactly    *)
(* one slot g, and the vertex indices of T other than slot f are the same   *)
(* set as the vertex indices of U other than slot g.                        *)
C1_AdjacencyReciprocal ==
    DefineReturned =>
        \A t \in 0..(NumTetrahedrons - 1), f \in 0..3 :
            LET u == tetrahedrons_[t + 1].neighbors_[f + 1]
            IN  u # M_MAX_UNSIGNED =>
                    /\ u < NumTetrahedrons
                    /\ Cardinality(SlotsListing(u, t)) = 1
                    /\ \A g \in SlotsListing(u, t) :
                            FaceVertices(tetrahedrons_[t + 1], f)
                                = FaceVertices(tetrahedrons_[u + 1], g)

(* The vertex indices of a face with the two sentinels of slot 3 of an     *)
(* outer tetrahedron taken for the same infinite vertex.                   *)
FaceVerticesSentinelsAlike(tetrahedron, slot) ==
    { IF v = Infinity2 THEN Infinity3 ELSE v : v \in FaceVertices(tetrahedron, slot) }

(* C1 amended: after Define returns, every neighbor U of a tetrahedron T on *)
(* slot f that is not 'none' is a tetrahedron that lists T in exactly one   *)
(* slot g, and the vertex indices of T other than slot f are the same set   *)
(* as the vertex indices of U other than slot g once Infinity2 and          *)
(* Infinity3 are counted as the same vertex.                                *)
C1_AdjacencySentinelsAlike ==
    DefineReturned =>
        \A t \in 0..(NumTetrahedrons - 1), f \in 0..3 :
            LET u == tetrahedrons_[t + 1].neighbors_[f + 1]
            IN  u # M_MAX_UNSIGNED =>
                    /\ u < NumTetrahedrons
                    /\ Cardinality(SlotsListing(u, t)) = 1
                    /\ \A g \in SlotsListing(u, t) :
                            FaceVerticesSentinelsAlike(tetrahedrons_[t + 1], f)
                                = FaceVerticesSentinelsAlike(tetrahedrons_[u + 1], g)

(* Define has returned a mesh with inner-inner, inner-outer and outer-outer *)
(* neighbor pairs, one of the latter between an Infinity2 and an Infinity3  *)
(* tetrahedron.                                                             *)
C1_Witness ==
    /\ DefineReturned
    /\ pc = "idle"
    /\ \E t \in numInnerTetrahedrons_..(NumTetrahedrons - 1), f \in 0..2 :
            /\ tetrahedrons_[t + 1].indices_[4] = Infinity2
            /\ tetrahedrons_[t + 1].neighbors_[f + 1] >= numInnerTetrahedrons_
            /\ tetrahedrons_[t + 1].neighbors_[f + 1] < NumTetrahedrons
            /\ tetrahedrons_[tetrahedrons_[t + 1].neighbors_[f + 1] + 1].indices_[4]
                    = Infinity3
    /\ numInnerTetrahedrons_ >= 2
    /\ \E t \in 0..(numInnerTetrahedrons_ - 1), f \in 0..3 :
            tetrahedrons_[t + 1].neighbors_[f + 1] < numInnerTetrahedrons_
    /\ \E t \in 0..(numInnerTetrahedrons_ - 1), f \in 0..3 :
            /\ tetrahedrons_[t + 1].neighbors_[f + 1] >= numInnerTetrahedrons_
            /\ tetrahedrons_[t + 1].neighbors_[f + 1] < NumTetrahedrons
    /\ \E t \in numInnerTetrahedrons_..(NumTetrahedrons - 1), f \in 0..3 :
            /\ tetrahedrons_[t + 1].neighbors_[f + 1] >= numInnerTetrahedrons_
            /\ tetrahedrons_[t + 1].neighbors_[f + 1] < NumTetrahedrons

(* The vertices Define accepted. *)
AcceptedVertices ==
    { v \in 0..(Len(vertices_) - 1) :
        \A n \in 1..Len(ignoredVertices_) : ignoredVertices_[n] # v }

(* Which side of the plane through vertices a, b, c the point q is on. *)
PlaneSide(a, b, c, q) ==
    DotProduct(CrossProduct(VSub(vertices_[b + 1], vertices_[a + 1]),
                            VSub(vertices_[c + 1], vertices_[a + 1])),
               VSub(q, vertices_[a + 1]))

(* The plane through a, b, c has every accepted vertex on its non-negative *)
(* side and one off it: it carries a face of the convex hull.              *)
IsHullPlane(a, b, c) ==
    /\ \A v \in AcceptedVertices : PlaneSide(a, b, c, vertices_[v + 1]) >= 0
    /\ \E v \in AcceptedVertices : PlaneSide(a, b, c, vertices_[v + 1]) > 0

IsStrictlyInsideHull(q) ==
    /\ \E a, b, c \in AcceptedVertices : IsHullPlane(a, b, c)
    /\ \A a, b, c \in AcceptedVertices :
            IsHullPlane(a, b, c) => PlaneSide(a, b, c, q) > 0

(* The four weights are each >= 0 and sum to 1. *)
IsConvexCombination(weights) ==
    /\ weights.den > 0
    /\ \A k \in 1..4 : weights.num[k] >= 0
    /\ weights.num[1] + weights.num[2] + weights.num[3] + weights.num[4] = weights.den

MinWeight(weights) ==
    SetMin({ weights.num[k] : k \in 1..4 })

(* The walk has just stepped from a tetrahedron of the mesh. *)
SteppedFromTetrahedron ==
    /\ pc = "loop"
    /\ trace.stepped
    /\ trace.from < NumTetrahedrons

(* C3: a step of GetInterpolationFactors from a tetrahedron with a negative *)
(* weight goes to neighbors[k] of that tetrahedron for a slot k whose       *)
(* weight is the minimum of the four.                                       *)
C3_StepsThroughMinimum ==
    SteppedFromTetrahedron =>
        /\ trace.weights.den > 0
        /\ MinWeight(trace.weights) < 0
        /\ \E k \in 0..3 :
            /\ trace.weights.num[k + 1] = MinWeight(trace.weights)
            /\ tetIndexHint = tetrahedrons_[trace.from + 1].neighbors_[k + 1]

(* A step on a mesh Define built, from weights whose first negative one is *)
(* not the least.                                                          *)
C3_Witness ==
    /\ SteppedFromTetrahedron
    /\ DefineReturned
    /\ \E k \in 0..3 :
        /\ trace.weights.num[k + 1] < 0
        /\ trace.weights.num[k + 1] > MinWeight(trace.weights)
        /\ tetrahedrons_[trace.from + 1].neighbors_[k + 1] # tetIndexHint

(* The slots whose weight is the minimum. *)
MinimumSlots(weights) ==
    { k \in 0..3 : weights.num[k + 1] = MinWeight(weights) }

(* The step has just been taken from weights with two or more equal least  *)
(* ones.                                                                   *)
SteppedFromTie ==
    /\ SteppedFromTetrahedron
    /\ Cardinality(MinimumSlots(trace.weights)) >= 2

(* C4 as stated: when two or more weights are equal and the most negative, *)
(* the step goes through the one with the lowest slot index.               *)
C4_LowestTiedSlot ==
    SteppedFromTie =>
        /\ trace.slot = SetMin(MinimumSlots(trace.weights))
        /\ tetIndexHint = tetrahedrons_[trace.from + 1].neighbors_[trace.slot + 1]

(* C4 amended: when two or more weights are equal and the most negative,   *)
(* the step goes through the one with the highest slot index.              *)
C4_HighestTiedSlot ==
    SteppedFromTie =>
        /\ trace.slot = SetMax(MinimumSlots(trace.weights))
        /\ tetIndexHint = tetrahedrons_[trace.from + 1].neighbors_[trace.slot + 1]

(* A step from an inner tetrahedron of a mesh Define built whose two least *)
(* weights are equal, to the neighbor of the higher slot, which is not the *)
(* neighbor of the lower one.                                              *)
C4_Witness ==
    /\ SteppedFromTie
    /\ DefineReturned
    /\ trace.from < numInnerTetrahedrons_
    /\ tetIndexHint = tetrahedrons_[trace.from + 1].neighbors_[
                            SetMax(MinimumSlots(trace.weights)) + 1]
    /\ tetIndexHint # tetrahedrons_[trace.from + 1].neighbors_[
                            SetMin(MinimumSlots(trace.weights)) + 1]

(* C5 as stated: when the slot a step chooses holds 'none', the call        *)
(* returns the weights it computed last, and 'none' is never used to index *)
(* the tetrahedron array or to evaluate barycentric coordinates.           *)
C5_ReturnsAtNone ==
    QueryEntered =>
        /\ trace.noneReturn
        /\ M_MAX_UNSIGNED \notin trace.reads

(* C6: for a mesh of N tetrahedra a call of GetInterpolationFactors takes  *)
(* at most N neighbor steps and at most N + 1 barycentric evaluations,     *)
(* whatever the position and the hint, also on a walk that cycles.         *)
C6_WalkBounded ==
    QueryEntered =>
        /\ i <= NumTetrahedrons
        /\ trace.steps = i
        /\ trace.steps <= NumTetrahedrons
        /\ trace.evals <= NumTetrahedrons + 1
        /\ trace.evals <= trace.steps + 1

(* A call has returned after N steps and N + 1 evaluations of tetrahedra   *)
(* of the mesh, one of them seen more than once.                           *)
C6_Witness ==
    /\ pc = "done"
    /\ NumTetrahedrons >= 2
    /\ trace.steps = NumTetrahedrons
    /\ trace.evals = NumTetrahedrons + 1
    /\ \A t \in trace.reads : t < NumTetrahedrons
    /\ \E a, b \in 1..Len(trace.visited) : a < b /\ trace.visited[a] = trace.visited[b]

(* Every neighbor slot of the mesh holds the index of a tetrahedron.       *)
IsFullyConnected ==
    \A t \in 1..NumTetrahedrons, f \in 1..4 :
        tetrahedrons_[t].neighbors_[f] < NumTetrahedrons

(* The second of two calls, made with the hint the first wrote back, has   *)
(* returned.                                                               *)
SecondCallReturned ==
    /\ pc = "done"
    /\ trace.repeat

(* C7 as stated, on meshes where the walk cannot leave the tetrahedron     *)
(* array: the second call returns the weights the first returned and takes *)
(* at most one neighbor step.                                              *)
C7_HintIdempotent ==
    (SecondCallReturned /\ IsFullyConnected) =>
        /\ result = trace.prevResult
        /\ trace.steps <= 1

(* The first call ended on a tetrahedron of the mesh with four weights     *)
(* that are all >= 0.                                                      *)
FirstCallFoundTetrahedron ==
    /\ trace.repeat
    /\ trace.prevHint < NumTetrahedrons
    /\ trace.prevResult.den > 0
    /\ \A k \in 1..4 : trace.prevResult.num[k] >= 0

(* C7 amended: when the first call ended on a tetrahedron of the mesh whose *)
(* weights are all >= 0, the call made again with the hint it wrote back    *)
(* returns the same weights and takes at most one neighbor step.            *)
C7_HintIdempotentWhenFound ==
    (QueryEntered /\ FirstCallFoundTetrahedron) =>
        /\ pc \in {"loop", "done"}
        /\ trace.steps <= 1
        /\ trace.reads \subseteq {trace.prevHint}
        /\ pc = "done" => result = trace.prevResult

(* The second call has returned on a mesh Define built, after a first call *)
(* that walked from another tetrahedron to the one it found.               *)
C7_Witness ==
    /\ SecondCallReturned
    /\ FirstCallFoundTetrahedron
    /\ DefineReturned
    /\ trace.prevHint # 0
    /\ trace.hintIn = trace.prevHint
    /\ result = trace.prevResult
    /\ \E k \in 1..4 : result.num[k] > 0

(* Sample has returned with the hint on a tetrahedron of the mesh. *)
SampleReturned ==
    /\ pc = "done"
    /\ caller = "Sample"
    /\ tetIndexHint < NumTetrahedrons

(* C8: Sample returns the sum of weights[k] * container[indices[k]] over   *)
(* k = 0, 1, 2 of the located tetrahedron, and the k = 3 term too only     *)
(* when that tetrahedron is inner; slot 3 of an outer tetrahedron is never *)
(* used as a container index.                                              *)
C8_SampleSum ==
    SampleReturned =>
        LET located == tetrahedrons_[tetIndexHint + 1]
            isInner == tetIndexHint < numInnerTetrahedrons_
            product(k) == container[located.indices_[k + 1]] * result.num[k + 1]
        IN  /\ sampleResult.den = result.den
            /\ sampleResult.num = product(0) + product(1) + product(2)
                                    + (IF isInner THEN product(3) ELSE 0)
            /\ {located.indices_[1], located.indices_[2], located.indices_[3]}
                    \subseteq trace.containerReads
            /\ isInner => located.indices_[4] \in trace.containerReads
            /\ ~isInner => trace.containerReads \cap {Infinity2, Infinity3} = {}

(* Sample has returned a non-zero sum from an outer tetrahedron of a mesh  *)
(* Define built.                                                           *)
C8_Witness ==
    /\ SampleReturned
    /\ DefineReturned
    /\ tetIndexHint >= numInnerTetrahedrons_
    /\ tetrahedrons_[tetIndexHint + 1].indices_[4] \in {Infinity2, Infinity3}
    /\ \A k \in 1..4 : result.num[k] >= 0
    /\ sampleResult.num # 0

(* C9: on a mesh with no tetrahedra GetInterpolationFactors returns the    *)
(* zero vector for every position and hint and reads no tetrahedron.       *)
C9_EmptyMeshZero ==
    (QueryEntered /\ Len(tetrahedrons_) = 0) =>
        /\ pc \in {"sample", "done"}
        /\ result = Vector4_ZERO
        /\ trace.reads = {}
        /\ trace.evals = 0
        /\ trace.steps = 0

(* The call has returned on the empty mesh Define built from one vertex,   *)
(* for a position that is not the origin and the hint M_MAX_UNSIGNED.      *)
C9_Witness ==
    /\ pc = "done"
    /\ DefineReturned
    /\ Len(vertices_) = 1
    /\ Len(tetrahedrons_) = 0
    /\ trace.hintIn = M_MAX_UNSIGNED
    /\ position # <<0, 0, 0>>

(* C10: GetInterpolationFactors and Sample leave vertices, tetrahedra,     *)
(* hull normals, ignored vertices and numInnerTetrahedrons as they were    *)
(* when the call began.                                                    *)
C10_MeshUnchanged ==
    QueryEntered => meshVars = trace.mesh

(* Sample has returned after a walk of two or more steps that moved the    *)
(* hint.                                                                   *)
C10_Witness ==
    /\ pc = "done"
    /\ caller = "Sample"
    /\ trace.steps >= 2
    /\ tetIndexHint # trace.hintIn
    /\ Len(tetrahedrons_) > 0
    /\ meshVars = trace.mesh

----------------------------------------------------------------------------
(* Queries of several threads *)

(* The thread's call has ended: it returned or it faulted. *)
ThreadEnded(t) == threads[t].pc \in {"done", "crashed"}

(* The query run by itself on the mesh, from tetrahedron tetIndex with the *)
(* loop counter at counter: what it returns and the hint it leaves, or     *)
(* defined = FALSE when it reads tetrahedrons_ outside the vector, where   *)
(* the language gives it no outcome.                                       *)
RECURSIVE AloneWalk(_, _, _)
AloneWalk(pos, tetIndex, counter) ==
    IF tetIndex >= Len(tetrahedrons_)
    THEN [defined |-> FALSE, weights |-> Vector4_ZERO, hint |-> tetIndex]
    ELSE LET coords == IF <<tetIndex, pos>> \in DOMAIN solved
                       THEN solved[<<tetIndex, pos>>]
                       ELSE UnusedCoords
             weights == GetBarycentricCoords(tetIndex, pos, coords)
             next == tetrahedrons_[tetIndex + 1].neighbors_[SelectNeighborSlot(weights) + 1]
         IN  IF ~LoopContinues(counter, Len(tetrahedrons_)) \/ IsInsideTetrahedron(weights)
             THEN [defined |-> TRUE, weights |-> weights, hint |-> tetIndex]
             ELSE AloneWalk(pos, next, counter + 1)

Alone(pos, hint) ==
    IF IsEmptyMesh
    THEN [defined |-> TRUE, weights |-> Vector4_ZERO, hint |-> hint]
    ELSE AloneWalk(pos, ClampHint(hint, Len(tetrahedrons_)), 0)

(* Where the query run by itself has an outcome, the thread's call ends    *)
(* with that outcome, whatever the other threads did meanwhile.            *)
ThreadsMatchAlone ==
    \A t \in Threads :
        ThreadEnded(t) /\ Alone(threads[t].position, threads[t].hintIn).defined =>
            /\ threads[t].pc = "done"
            /\ threads[t].result = Alone(threads[t].position, threads[t].hintIn).weights
            /\ threads[t].tetIndexHint = Alone(threads[t].position, threads[t].hintIn).hint

(* Two calls with the same position and the same initial hint end alike. *)
ThreadsAgree ==
    \A t, u \in Threads :
        /\ ThreadEnded(t)
        /\ ThreadEnded(u)
        /\ threads[t].position = threads[u].position
        /\ threads[t].hintIn = threads[u].hintIn
        => /\ threads[t].pc = threads[u].pc
           /\ threads[t].result = threads[u].result
           /\ threads[t].tetIndexHint = threads[u].tetIndexHint

(* C11: on a mesh that no one changes, the weights and the final hint of   *)
(* every thread's query are those of the query run alone, in every         *)
(* interleaving: they depend only on the mesh, the position and the        *)
(* query's initial hint.                                                   *)
C11_QueriesIndependent ==
    /\ ThreadsMatchAlone
    /\ ThreadsAgree

----------------------------------------------------------------------------
(* Insertions that fail *)

(* The places (face, edge slot) of a surface where edge e occurs. *)
EdgePlaces(faces, e) ==
    { place \in (1..Len(faces)) \X (0..2) : GetEdge(faces[place[1]], place[2]) = e }

(* Every edge of the surface is an edge of exactly two faces, and of two   *)
(* different ones.                                                         *)
EveryEdgeOfTwoFaces(faces) ==
    \A f \in 1..Len(faces), k \in 0..2 :
        /\ Cardinality(EdgePlaces(faces, GetEdge(faces[f], k))) = 2
        /\ \E place \in EdgePlaces(faces, GetEdge(faces[f], k)) : place[1] # f

(* The insertion that is about to run finds a hole whose surface is not    *)
(* closed.                                                                 *)
InsertionFails ==
    /\ pc = "BuildTetrahedrons"
    /\ newIndex < Len(vertices_)
    /\ FindTetrahedron(vertices_[newIndex + 1], removed_) # M_MAX_UNSIGNED
    /\ ~EveryEdgeOfTwoFaces(HoleFaces(CollectIntersected(
            <<FindTetrahedron(vertices_[newIndex + 1], removed_)>>, 1,
            vertices_[newIndex + 1], removed_)))

----------------------------------------------------------------------------
(* The mesh Define returns *)

(* Valid indices into the exposed vertex sequence. *)
RealVertexIndices == 0..(Len(vertices_) - 1)

InnerTetrahedrons == 0..(numInnerTetrahedrons_ - 1)

OuterTetrahedrons == numInnerTetrahedrons_..(Len(tetrahedrons_) - 1)

(* C13: after Define returns, every vertex index of an inner tetrahedron   *)
(* is a valid index into the vertex sequence (no super-mesh vertex is left *)
(* in a slot) and every neighbor index of every tetrahedron is 'none' or a *)
(* valid index into the tetrahedron sequence (no removed tetrahedron is    *)
(* referred to).                                                           *)
C13_IndicesValid ==
    DefineReturned =>
        /\ \A t \in InnerTetrahedrons, k \in 1..4 :
            tetrahedrons_[t + 1].indices_[k] \in RealVertexIndices
        /\ \A t \in 0..(Len(tetrahedrons_) - 1), k \in 1..4 :
            \/ tetrahedrons_[t + 1].neighbors_[k] = M_MAX_UNSIGNED
            \/ tetrahedrons_[t + 1].neighbors_[k] \in 0..(Len(tetrahedrons_) - 1)

(* Define has returned a mesh of several inner tetrahedra, cut out of the  *)
(* super-mesh by the clean-up.                                             *)
C13_Witness ==
    /\ DefineReturned
    /\ pc = "idle"
    /\ numInnerTetrahedrons_ >= 3
    /\ \E t \in InnerTetrahedrons, k \in 1..4 :
        tetrahedrons_[t + 1].neighbors_[k] \in InnerTetrahedrons

(* C14: after Define returns, the tetrahedra below numInnerTetrahedrons    *)
(* have four real vertex indices; those from numInnerTetrahedrons on have  *)
(* three real vertex indices in slots 0..2 and Infinity3 or Infinity2 in   *)
(* slot 3, an inner tetrahedron as slot-3 neighbor and outer tetrahedra as *)
(* neighbors in slots 0..2.                                                *)
C14_InnerOuterPartition ==
    DefineReturned =>
        /\ numInnerTetrahedrons_ <= Len(tetrahedrons_)
        /\ \A t \in InnerTetrahedrons, k \in 1..4 :
            tetrahedrons_[t + 1].indices_[k] \in RealVertexIndices
        /\ \A t \in OuterTetrahedrons :
            /\ \A k \in 1..3 : tetrahedrons_[t + 1].indices_[k] \in RealVertexIndices
            /\ tetrahedrons_[t + 1].indices_[4] \in {Infinity3, Infinity2}
            /\ tetrahedrons_[t + 1].neighbors_[4] \in InnerTetrahedrons
            /\ \A k \in 1..3 : tetrahedrons_[t + 1].neighbors_[k] \in OuterTetrahedrons

(* Define has returned a mesh with outer tetrahedra of both sentinels. *)
C14_Witness ==
    /\ DefineReturned
    /\ pc = "idle"
    /\ \E t \in OuterTetrahedrons : tetrahedrons_[t + 1].indices_[4] = Infinity3
    /\ \E t \in OuterTetrahedrons : tetrahedrons_[t + 1].indices_[4] = Infinity2

(* The vertex indices that occur in a vertex slot of some tetrahedron. *)
UsedVertices ==
    { tetrahedrons_[n].indices_[k] : n \in 1..Len(tetrahedrons_), k \in 1..4 }

NotDeepInsideCircumsphere(tetrahedron, vertices, pos) ==
    LET p0 == vertices[tetrahedron.indices_[1] + 1]
        a1 == VSub(vertices[tetrahedron.indices_[2] + 1], p0)
        a2 == VSub(vertices[tetrahedron.indices_[3] + 1], p0)
        a3 == VSub(vertices[tetrahedron.indices_[4] + 1], p0)
        b1 == DotProduct(a1, a1) + 2 * DotProduct(a1, p0)
        b2 == DotProduct(a2, a2) + 2 * DotProduct(a2, p0)
        b3 == DotProduct(a3, a3) + 2 * DotProduct(a3, p0)
        c23 == CrossProduct(a2, a3)
        c31 == CrossProduct(a3, a1)
        c12 == CrossProduct(a1, a2)
        D == DotProduct(a1, c23)
        C == << b1 * c23[1] + b2 * c31[1] + b3 * c12[1],
                b1 * c23[2] + b2 * c31[2] + b3 * c12[2],
                b1 * c23[3] + b2 * c31[3] + b3 * c12[3] >>
        power == (DotProduct(pos, pos) - DotProduct(p0, p0)) * D
                     - DotProduct(VSub(pos, p0), C)
        signed == IF D > 0 THEN power ELSE -power
        corner == VSub(<<2 * D * p0[1], 2 * D * p0[2], 2 * D * p0[3]>>, C)
        R == DotProduct(corner, corner)
        eps2 == largeEpsilon * largeEpsilon
        short == eps2 * Abs(D) - signed
    IN  IF D = 0 THEN FALSE
        ELSE IF largeEpsilon = 0 THEN signed >= 0
        ELSE \/ R <= 4 * D * D * eps2
             \/ short <= 0
             \/ short * short <= eps2 * R

(* C16: after Define returns, no accepted input vertex that is not a       *)
(* vertex of an inner tetrahedron T lies inside the circumsphere of T by   *)
(* more than epsilon_large.                                                *)
C16_EmptyCircumspheres ==
    DefineReturned =>
        \A t \in InnerTetrahedrons : \A v \in AcceptedVertices :
            v \notin SeqToSet(tetrahedrons_[t + 1].indices_) =>
                NotDeepInsideCircumsphere(tetrahedrons_[t + 1], vertices_,
                                          vertices_[v + 1])

----------------------------------------------------------------------------
(* Adjacency of a surface *)

CalculateAdjacencyReturned == surfaceCall.called = "CalculateAdjacency"

NeighborAcross(faces, f, k) ==
    faces[f].neighbors_[EdgeNeighborSlot(k) + 1]

(* C18: when CalculateAdjacency returns failure no neighbor slot has been  *)
(* written; when it returns success every neighbor slot of every triangle  *)
(* is set, and triangle A has B in the slot of an edge exactly when B has  *)
(* A in the slot of the same edge.                                         *)
C18_NeighborsAllOrNothing ==
    CalculateAdjacencyReturned =>
        IF ~surfaceCall.returned
        THEN faces_ = surfaceCall.before
        ELSE /\ \A f \in 1..Len(faces_), k \in 0..2 :
                    NeighborAcross(faces_, f, k) \in 0..(Len(faces_) - 1)
             /\ \A a \in 1..Len(faces_), b \in 1..Len(faces_), k \in 0..2, m \in 0..2 :
                    GetEdge(faces_[a], k) = GetEdge(faces_[b], m) =>
                        (NeighborAcross(faces_, a, k) = b - 1
                            <=> NeighborAcross(faces_, b, m) = a - 1)

(* CalculateAdjacency has failed on a surface whose triangles had their    *)
(* neighbors from an earlier call that succeeded, and whose first edge     *)
(* records pair up.                                                        *)
C18_Witness ==
    /\ CalculateAdjacencyReturned
    /\ ~surfaceCall.returned
    /\ Len(surfaceCall.before) >= 3
    /\ surfaceCall.before[1].neighbors_ # NoTriangleNeighbors
    /\ GetEdge(surfaceCall.before[1], 0) = GetEdge(surfaceCall.before[2], 0)

----------------------------------------------------------------------------
(* Normalization of a triangle *)

NormalizeReturned == surfaceCall.called = "Normalize"

NormalizedBefore == surfaceCall.before[surfaceCall.face + 1]

NormalizedAfter == faces_[surfaceCall.face + 1]

(* C22: when the orientation test of Normalize is negative the triangle    *)
(* has its index slots 0 and 1 and its neighbor slots 0 and 1 swapped and  *)
(* nothing else changed, and every neighbor is still in the slot of the    *)
(* edge it was across before; when the test is not negative the triangle   *)
(* is as it was.  No other triangle of the surface is touched.             *)
C22_NormalizeKeepsEdgeSlots ==
    NormalizeReturned =>
        /\ Len(faces_) = Len(surfaceCall.before)
        /\ \A f \in 1..Len(faces_) :
            f # surfaceCall.face + 1 => faces_[f] = surfaceCall.before[f]
        /\ IF DotProduct(VSub(SurfaceVertices[NormalizedBefore.indices_[1] + 1],
                              SurfaceVertices[NormalizedBefore.unusedIndex_ + 1]),
                         CrossProduct(
                            VSub(SurfaceVertices[NormalizedBefore.indices_[2] + 1],
                                 SurfaceVertices[NormalizedBefore.indices_[1] + 1]),
                            VSub(SurfaceVertices[NormalizedBefore.indices_[3] + 1],
                                 SurfaceVertices[NormalizedBefore.indices_[1] + 1]))) < 0
           THEN /\ NormalizedAfter.indices_[1] = NormalizedBefore.indices_[2]
                /\ NormalizedAfter.indices_[2] = NormalizedBefore.indices_[1]
                /\ NormalizedAfter.indices_[3] = NormalizedBefore.indices_[3]
                /\ NormalizedAfter.neighbors_[1] = NormalizedBefore.neighbors_[2]
                /\ NormalizedAfter.neighbors_[2] = NormalizedBefore.neighbors_[1]
                /\ NormalizedAfter.neighbors_[3] = NormalizedBefore.neighbors_[3]
                /\ NormalizedAfter.unusedIndex_ = NormalizedBefore.unusedIndex_
                /\ NormalizedAfter.tetIndex_ = NormalizedBefore.tetIndex_
                /\ NormalizedAfter.tetFace_ = NormalizedBefore.tetFace_
                /\ \A k \in 0..2, m \in 0..2 :
                    GetEdge(NormalizedAfter, m) = GetEdge(NormalizedBefore, k) =>
                        NeighborAcross(faces_, surfaceCall.face + 1, m)
                            = NeighborAcross(surfaceCall.before,
                                             surfaceCall.face + 1, k)
           ELSE NormalizedAfter = NormalizedBefore

(* Normalize has swapped the slots of a triangle that had three different  *)
(* triangles as its neighbors.                                             *)
C22_Witness ==
    /\ NormalizeReturned
    /\ NormalizedAfter # NormalizedBefore
    /\ Cardinality(SeqToSet(NormalizedBefore.neighbors_)) = 3
    /\ \A k \in 1..3 : NormalizedBefore.neighbors_[k] \in 0..(Len(faces_) - 1)

(* Normalize has left alone a triangle that had three different triangles  *)
(* as its neighbors.                                                       *)
C22_WitnessUnchanged ==
    /\ NormalizeReturned
    /\ NormalizedAfter = NormalizedBefore
    /\ Cardinality(SeqToSet(NormalizedBefore.neighbors_)) = 3

----------------------------------------------------------------------------
(* The walk at an outer tetrahedron *)

IsOuterTetrahedron(tetIndex) ==
    /\ tetIndex >= numInnerTetrahedrons_
    /\ tetIndex < Len(tetrahedrons_)

(* The query point is on the inner side of the base triangle of the outer  *)
(* tetrahedron tetIndex.                                                   *)
OnInnerSide(tetIndex) ==
    /\ IsOuterTetrahedron(tetIndex)
    /\ IsInInnerCell(tetIndex, position)

(* tetIndex is the inner tetrahedron behind the base triangle of outer.    *)
IsBehindHullFace(tetIndex, outer) ==
    /\ tetIndex < numInnerTetrahedrons_
    /\ \A k \in 1..3 : tetrahedrons_[outer + 1].indices_[k]
                            \in SeqToSet(tetrahedrons_[tetIndex + 1].indices_)

(* The tetrahedron evaluated last in the running call and the weights it   *)
(* gave: those of the last step, or those the call returned.               *)
HasEvaluated ==
    /\ QueryEntered
    /\ pc # "crashed"
    /\ trace.visited # <<>>
    /\ trace.stepped \/ pc \in {"done", "sample"}

LastEvaluated == IF trace.stepped THEN trace.from
                 ELSE trace.visited[Len(trace.visited)]

LastWeights == IF trace.stepped THEN trace.weights ELSE result

(* C19: an outer tetrahedron with the query point on the inner side of its *)
(* base triangle gives the weights (0, 0, 0, -1), and the tetrahedron the  *)
(* walk visits next is its slot-3 neighbor, the inner tetrahedron behind   *)
(* the hull face; in every other case the slot-3 weight of an outer        *)
(* tetrahedron is exactly 0.                                               *)
C19_OuterWalkGoesInside ==
    /\ HasEvaluated /\ IsOuterTetrahedron(LastEvaluated) =>
            IF OnInnerSide(LastEvaluated)
            THEN LastWeights = Vector4(<<0, 0, 0, -1>>, 1)
            ELSE LastWeights.num[4] = 0
    /\ QueryEntered =>
            \A k \in 1..(Len(trace.visited) - 1) :
                OnInnerSide(trace.visited[k]) =>
                    /\ trace.visited[k + 1] =
                            tetrahedrons_[trace.visited[k] + 1].neighbors_[4]
                    /\ IsBehindHullFace(trace.visited[k + 1], trace.visited[k])

(* A call has returned weights of an inner tetrahedron that the walk       *)
(* entered from an outer one, the query point being on the inner side of   *)
(* its base triangle, after an outer tetrahedron with the point on the     *)
(* outer side.                                                             *)
C19_Witness ==
    /\ pc = "done"
    /\ \E k \in 1..(Len(trace.visited) - 1) : OnInnerSide(trace.visited[k])
    /\ \E k \in 1..(Len(trace.visited) - 1) :
            /\ IsOuterTetrahedron(trace.visited[k])
            /\ ~OnInnerSide(trace.visited[k])
    /\ trace.visited[Len(trace.visited)] < numInnerTetrahedrons_
    /\ IsInsideTetrahedron(result)

----------------------------------------------------------------------------
(* The clean-up step that ensures connectivity *)

(* The tetrahedra reached from those of the set over neighbor links, going *)
(* through tetrahedra that are not removed only.                           *)
RECURSIVE ReachedThroughSurvivors(_)
ReachedThroughSurvivors(set) ==
    LET next == { t \in 0..(Len(tetrahedrons_) - 1) :
                    /\ ~removed_[t + 1]
                    /\ \E a \in set, k \in 1..4 :
                            tetrahedrons_[a + 1].neighbors_[k] = t }
    IN  IF next \subseteq set THEN set ELSE ReachedThroughSurvivors(set \cup next)

EnsureMeshConnectivityDone == pc = "FilterMeshSurface"

(* C20: after the ensure-connectivity step every surviving tetrahedron is  *)
(* reachable from every other surviving tetrahedron through surviving      *)
(* neighbors.                                                              *)
C20_SurvivorsConnected ==
    EnsureMeshConnectivityDone =>
        \A a \in Surviving(removed_), b \in Surviving(removed_) :
            b \in ReachedThroughSurvivors({a})

(* The step has removed a tetrahedron of real vertices that the flood did  *)
(* not reach, and several tetrahedra survive.                              *)
C20_Witness ==
    /\ EnsureMeshConnectivityDone
    /\ Cardinality(Surviving(removed_)) >= 2
    /\ \E n \in 1..Len(removed_) :
            removed_[n] /\ ~TouchesSuperMesh(tetrahedrons_[n])

----------------------------------------------------------------------------
(* The clean-up step that filters the surface *)

RemovedCount == Cardinality({ n \in 1..Len(removed_) : removed_[n] })

(* Surviving tetrahedron t has a face on the surface: no surviving         *)
(* tetrahedron is behind it.                                               *)
IsOnSurface(t) ==
    /\ ~removed_[t + 1]
    /\ \E k \in 1..4 :
            \/ tetrahedrons_[t + 1].neighbors_[k] = M_MAX_UNSIGNED
            \/ removed_[tetrahedrons_[t + 1].neighbors_[k] + 1]

HasEdge(t, u, v) ==
    /\ u \in SeqToSet(tetrahedrons_[t + 1].indices_)
    /\ v \in SeqToSet(tetrahedrons_[t + 1].indices_)

(* The surviving tetrahedra around the edge (u, v) reached from those of   *)
(* the set across faces.                                                   *)
RECURSIVE ReachedAroundEdge(_, _, _)
ReachedAroundEdge(set, u, v) ==
    LET next == { t \in Surviving(removed_) :
                    /\ HasEdge(t, u, v)
                    /\ \E a \in set, k \in 1..4 :
                            tetrahedrons_[a + 1].neighbors_[k] = t }
    IN  IF next \subseteq set THEN set ELSE ReachedAroundEdge(set \cup next, u, v)

(* Two surviving surface tetrahedra have an edge in common and are not     *)
(* joined across faces around it.                                          *)
ConnectedOnlyAlongEdge(a, b) ==
    /\ a # b
    /\ IsOnSurface(a)
    /\ IsOnSurface(b)
    /\ \E u \in SeqToSet(tetrahedrons_[a + 1].indices_),
          v \in SeqToSet(tetrahedrons_[a + 1].indices_) :
            /\ u < v
            /\ HasEdge(b, u, v)
            /\ b \notin ReachedAroundEdge({a}, u, v)

FilterMeshSurfaceRuns == pc = "FilterMeshSurface"

FilterMeshSurfaceStopped == pc = "RemoveMarkedTetrahedrons"

(* Each repetition marks at least one more tetrahedron. *)
RepetitionMarksMore ==
    [][FilterMeshSurfaceRuns /\ repetitions' = repetitions + 1
            => RemovedCount' > RemovedCount]_vars

(* There are never more repetitions than tetrahedra. *)
RepetitionsBounded ==
    (FilterMeshSurfaceRuns \/ FilterMeshSurfaceStopped)
        => repetitions <= Len(tetrahedrons_)

(* When the step has stopped no two surviving surface tetrahedra are       *)
(* connected only along an edge.                                           *)
NothingPinched ==
    FilterMeshSurfaceStopped =>
        \A a \in Surviving(removed_), b \in Surviving(removed_) :
            ~ConnectedOnlyAlongEdge(a, b)

(* C21: the surface filter terminates on every mesh: each repetition marks *)
(* at least one more tetrahedron removed, it takes at most as many         *)
(* repetitions as there are tetrahedra, it stops, and when it has stopped  *)
(* no two surviving surface tetrahedra are connected only along an edge.   *)
C21_FilterTerminates ==
    /\ RepetitionMarksMore
    /\ []RepetitionsBounded
    /\ []NothingPinched
    /\ (FilterMeshSurfaceRuns ~> FilterMeshSurfaceStopped)

(* The filter has stopped after two repetitions, and tetrahedra survive. *)
C21_Witness ==
    /\ FilterMeshSurfaceStopped
    /\ repetitions >= 2
    /\ Surviving(removed_) # {}

----------------------------------------------------------------------------
(* The walk of an insertion *)

(* Define is about to insert the vertex newIndex, which begins with        *)
(* FindTetrahedron for its position.                                       *)
FindTetrahedronCalled ==
    /\ pc = "BuildTetrahedrons"
    /\ newIndex < Len(vertices_)

FindTetrahedronReturned == FindTetrahedron(vertices_[newIndex + 1], removed_)

FirstNotRemoved ==
    (CHOOSE n \in 1..Len(removed_) :
        ~removed_[n] /\ \A m \in 1..(n - 1) : removed_[m]) - 1

(* Whether one of the tetrahedra the walk evaluates, from tetIndex on and  *)
(* with iter passes behind it, holds the position.                         *)
RECURSIVE WalkFindsContaining(_, _, _)
WalkFindsContaining(tetIndex, pos, iter) ==
    /\ iter < Len(tetrahedrons_)
    /\ tetIndex # M_MAX_UNSIGNED
    /\ \/ \A k \in 0..3 : GreaterEqualZero(GetInnerBarycentricCoords(tetIndex, pos), k)
       \/ WalkFindsContaining(
                tetrahedrons_[tetIndex + 1].neighbors_[
                    FindTetrahedronSlot(GetInnerBarycentricCoords(tetIndex, pos)) + 1],
                pos, iter + 1)

(* C23: FindTetrahedron returns the invalid index or the index of a        *)
(* tetrahedron that is not removed and whose four inner weights for the    *)
(* position are all >= 0; it returns the invalid index when every          *)
(* tetrahedron is removed and when the walk has not found a containing     *)
(* tetrahedron within its step bound.                                      *)
C23_FoundOrInvalid ==
    FindTetrahedronCalled =>
        /\ \/ FindTetrahedronReturned = M_MAX_UNSIGNED
           \/ /\ FindTetrahedronReturned \in 0..(Len(tetrahedrons_) - 1)
              /\ ~removed_[FindTetrahedronReturned + 1]
              /\ \A k \in 0..3 :
                    GreaterEqualZero(
                        GetInnerBarycentricCoords(FindTetrahedronReturned,
                                                  vertices_[newIndex + 1]), k)
        /\ (\A n \in 1..Len(removed_) : removed_[n]) =>
                FindTetrahedronReturned = M_MAX_UNSIGNED
        /\ (\E n \in 1..Len(removed_) : ~removed_[n]) =>
                (~WalkFindsContaining(FirstNotRemoved, vertices_[newIndex + 1], 0) =>
                    FindTetrahedronReturned = M_MAX_UNSIGNED)

----------------------------------------------------------------------------
(* The hint and the weights of a call that has returned *)

(* C24: when GetInterpolationFactors has returned from a mesh that is not  *)
(* empty, the hint it wrote back is the index of a tetrahedron of the mesh *)
(* and the weights it returned are the barycentric coordinates of the      *)
(* position in that tetrahedron, so that Sample multiplies them with the   *)
(* vertices of the tetrahedron they belong to.                             *)
C24_WeightsBelongToHint ==
    (FactorsReturned /\ ~IsEmptyMesh) =>
        /\ tetIndexHint < NumTetrahedrons
        /\ \E coords \in CoordsOptions(tetIndexHint, position) :
                result = GetBarycentricCoords(tetIndexHint, position, coords)

----------------------------------------------------------------------------
(* The names of the resources *)

NameCreated == gltfCall.called = "CreateLocalResourceName"

(* The candidate with the number index for the call that has returned. *)
CandidateName(index) ==
    TexturesPrefix
    \o (IF gltfCall.nameHint # <<>> THEN gltfCall.nameHint ELSE DefaultTextureName)
    \o (IF index = 0 THEN <<>> ELSE <<"_">> \o Decimal(index))
    \o gltfCall.suffix

(* C26: CreateLocalResourceName never returns a name it has returned       *)
(* before: a call returns the candidate with the smallest number in        *)
(* 0..1023 (0 for no number) that no call has returned yet and records it, *)
(* and it throws, recording nothing, when all 1024 candidates have been    *)
(* returned.                                                               *)
C26_NamesNeverRepeat ==
    NameCreated =>
        IF gltfCall.threw
        THEN /\ \A index \in 0..1023 : CandidateName(index) \in gltfCall.returned
             /\ localResourceNames_ = gltfCall.recorded
             /\ returnedNames = gltfCall.returned
        ELSE /\ gltfCall.name \notin gltfCall.returned
             /\ \E index \in 0..1023 :
                    /\ gltfCall.name = CandidateName(index)
                    /\ \A lower \in 0..(index - 1) :
                            CandidateName(lower) \in gltfCall.returned
             /\ localResourceNames_ = gltfCall.recorded \cup {gltfCall.name}

(* The call has thrown: all 1024 candidates of its name were taken. *)
C26_WitnessAllTaken ==
    /\ NameCreated
    /\ gltfCall.threw
    /\ Cardinality(returnedNames) = 1024

(* The call has skipped a number that an image with another name had       *)
(* taken: the name "a" got the number 2 when "a" had been returned once.   *)
C26_Witness ==
    /\ NameCreated
    /\ ~gltfCall.threw
    /\ gltfCall.nameHint = <<"a">>
    /\ gltfCall.name = CandidateName(2)
    /\ CandidateName(1) \in gltfCall.returned
    /\ Cardinality(gltfCall.returned) = 2

(***************************************************************************)
(* The cooking phase of the texture importer                               *)
(***************************************************************************)

CookingPhaseCalls ==
    { "ReferenceTextureAsIs", "ReferenceRoughnessMetallicOcclusionTexture",
      "CookTextures" }

(* C25: once CookTextures has been called on a texture importer, every     *)
(* later call of ReferenceTextureAsIs,                                     *)
(* ReferenceRoughnessMetallicOcclusionTexture or CookTextures throws, and  *)
(* leaves the set of referenced textures and the map of the                *)
(* metallic-roughness-occlusion textures as they were.                     *)
C25_CookingIsOneWay ==
    (/\ gltfCall.called \in CookingPhaseCalls
     /\ gltfCall.afterCookTextures)
        => /\ gltfCall.threw
           /\ ReferencedAsIs(TextureImporter) = ReferencedAsIs(gltfCall.before)
           /\ texturesMRO_ = gltfCall.before.texturesMRO_

(* A texture is referenced after a CookTextures that threw on an image of  *)
(* no size and left an entry of the map without its image.                 *)
C25_Witness ==
    /\ gltfCall.called = "ReferenceRoughnessMetallicOcclusionTexture"
    /\ gltfCall.afterCookTextures
    /\ gltfCall.arguments[1] \in 0..(Len(texturesAsIs_) - 1)
    /\ gltfCall.arguments[2] = -1
    /\ \E key \in DOMAIN texturesMRO_ :
            texturesMRO_[key].repackedImage_ = nullptr

(***************************************************************************)
(* The textures handed out for the pairs of indices                        *)
(***************************************************************************)

(* C27: before cooking, any two calls of                                   *)
(* ReferenceRoughnessMetallicOcclusionTexture with the same pair of        *)
(* indices return the same texture, whatever pairs are referenced between  *)
(* them.                                                                   *)
C27_SamePairSameTexture ==
    \A first \in handedOut, second \in handedOut :
        first.key = second.key => first.fakeTexture_ = second.fakeTexture_

HandedOutTextures == { reference.fakeTexture_ : reference \in handedOut }

(* The keys of the map whose entry is the texture. *)
KeysOf(fakeTexture) ==
    { key \in DOMAIN texturesMRO_ : texturesMRO_[key].fakeTexture_ = fakeTexture }

(* Until cooking, every texture handed out is the value of exactly one     *)
(* entry of the map.                                                       *)
HandedOutHaveOneEntry ==
    ~CookTexturesCalled =>
        \A fakeTexture \in HandedOutTextures :
            Cardinality(KeysOf(fakeTexture)) = 1

AllHandedOutRepacked ==
    \A fakeTexture \in HandedOutTextures :
        \E key \in KeysOf(fakeTexture) : texturesMRO_[key].repackedImage_ # nullptr

FirstCookTexturesEnded ==
    /\ gltfCall.called = "CookTextures"
    /\ ~gltfCall.afterCookTextures

ImporterCalls == { "LoadFile", "CookResources", "SaveResources" }

C29_WitnessNotLoaded ==
    /\ gltfCall.called = "CookResources"
    /\ ~gltfCall.afterLoadFile
    /\ gltfCall.value = FALSE

(* C30: SaveResources saves nothing and returns false unless CookResources *)
(* has returned true on the loaded file before.                            *)
C30_SaveResourcesOnlyAfterCook ==
    (gltfCall.called = "SaveResources" /\ ~gltfCall.cookedBefore) =>
        /\ gltfCall.saved = {}
        /\ ~gltfCall.crashed
        /\ gltfCall.value = FALSE

====
